---- MODULE Spec2Model ----
(***************************************************************************)
(* Model of the join state machine of sn/src/node/core/bootstrap/join.rs   *)
(* and of NetworkKnowledge::new (sn/src/node/network_knowledge/mod.rs).    *)
(*                                                                         *)
(* One action per arm of the `match response` in Join::join, plus the      *)
(* first send made by Join::run/Join::join and the two ways                *)
(* Join::receive_join_response ends without a JoinResponse (a discarded    *)
(* event, a closed channel).                                               *)
(***************************************************************************)
EXTENDS Integers, Sequences, FiniteSets, TLC

(***************************************************************************)
(* Bounds of the model.                                                    *)
(***************************************************************************)
\* BLS keys are 0..MaxKey: 0 is the genesis key, 1..MaxKey-1 descend from it
\* and MaxKey is a key no chain rooted at genesis reaches.
MaxKey == 2
\* Socket addresses are 1..MaxAddr.
MaxAddr == 2
\* A Retry's expected_age is MIN_ADULT_AGE..MaxAge.
MaxAge == 7
\* BLS threshold of every key set: Threshold + 1 shares combine.
Threshold == 1
\* Number of responses (or other events) one join run processes.
MaxSteps == 2

\* Key-set share indices are 1..MaxShareIdx: one elder more than combine.
MaxShareIdx == Threshold + 2
\* The runs that aggregate shares process MaxShareSteps events: enough to
\* combine and to receive one more share.
MaxShareSteps == Threshold + 2

(***************************************************************************)
(* Program constants.                                                      *)
(***************************************************************************)
MIN_ADULT_AGE == 5

(***************************************************************************)
(* Keys and section chains (SecuredLinkedList).                            *)
(***************************************************************************)
Keys == 0..MaxKey
GenesisKey == 0
ForeignKey == MaxKey

\* The one signature that exists for a non-root key: key c is signed by
\* ParentKey(c).  ForeignKey is signed by nobody.
ParentKey(c) == (c - 1) \div 2

ValidLink(p, c) == c # GenesisKey /\ c # ForeignKey /\ p # ForeignKey /\ p = ParentKey(c)

\* A proof chain is one branch: the sequence of its keys from root to last.
root_key(chain) == chain[1]
last_key(chain) == chain[Len(chain)]
has_key(chain, k) == \E i \in 1..Len(chain) : chain[i] = k
chain_self_verify(chain) == \A i \in 1..(Len(chain) - 1) : ValidLink(chain[i], chain[i + 1])

\* The branch from genesis to k; for ForeignKey a chain whose link does not
\* verify.
RECURSIVE PathTo(_)
PathTo(k) ==
    IF k = GenesisKey THEN <<GenesisKey>>
    ELSE IF k = ForeignKey THEN <<GenesisKey, k>>
    ELSE Append(PathTo(ParentKey(k)), k)

\* The chains a response may carry for a SAP with key k: the branch from
\* genesis to it, the key alone, and the bare genesis chain.
ChainsFor(k) == {PathTo(k), <<k>>, <<GenesisKey>>}

(***************************************************************************)
(* Names, prefixes, peers.                                                 *)
(***************************************************************************)
Bit == 0..1
Addrs == 1..MaxAddr
Ages == MIN_ADULT_AGE..MaxAge

RECURSIVE BitSeqs(_)
BitSeqs(n) == IF n = 0 THEN {<<>>} ELSE {Append(s, b) : s \in BitSeqs(n - 1), b \in Bit}

\* Section prefixes: the whole address space and its two halves.
Prefixes == BitSeqs(0) \cup BitSeqs(1)

\* XorName: its two leading bits (one more than the longest prefix) and its
\* last byte, which is the age.
NameBits == Len(<<0, 0>>)
Names == [bits : BitSeqs(NameBits), age : Ages]

\* Prefix::matches
matches(prefix, name) ==
    /\ Len(prefix) <= Len(name.bits)
    /\ \A i \in 1..Len(prefix) : prefix[i] = name.bits[i]

\* Prefix::is_compatible / strict extension
IsExtensionOf(p, q) == Len(q) < Len(p) /\ \A i \in 1..Len(q) : p[i] = q[i]

CommonPrefixLen(prefix, name) ==
    LET S == {n \in 0..Len(prefix) : n <= Len(name.bits) /\ \A i \in 1..n : prefix[i] = name.bits[i]}
    IN  CHOOSE n \in S : \A m \in S : m <= n

(***************************************************************************)
(* Signatures.  A signature names its key and the bytes it signs; it       *)
(* verifies for a value iff it signs that value's serialisation.           *)
(***************************************************************************)
SerialiseSap(sap) == <<"sap", sap.prefix, sap.key, sap.elders>>
SerialiseNodeState(ns) == <<"node_state", ns.name.bits, ns.name.age, ns.state>>
Junk == <<"junk">>

sig_verify(sig, bytes) == sig.signs = bytes

\* SectionAuth<SectionAuthorityProvider>::self_verify
sap_self_verify(ssap) == sig_verify(ssap.sig, SerialiseSap(ssap.value))

\* SectionAuth<NodeState>::verify(chain): signed by a key of the chain.
node_state_verify(auth, chain) ==
    /\ has_key(chain, auth.sig.public_key)
    /\ sig_verify(auth.sig, SerialiseNodeState(auth.value))

(***************************************************************************)
(* Section authority providers.                                            *)
(***************************************************************************)
\* Elder sets of unsigned (Redirect) SAPs: none, the first address, the first
\* two, ...
ElderSets == {1..n : n \in 0..MaxAddr}
Saps == [prefix : Prefixes, key : Keys \ {ForeignKey}, elders : ElderSets]

\* The signatures a message may carry for a SAP: the section's own, one made
\* with another key, and one that does not verify.
SapSigs(sap) ==
    { [public_key |-> sap.key, signs |-> SerialiseSap(sap)],
      [public_key |-> (sap.key + 1) % (MaxKey + 1), signs |-> SerialiseSap(sap)],
      [public_key |-> sap.key, signs |-> Junk] }

GoodSapSig(sap) == [public_key |-> sap.key, signs |-> SerialiseSap(sap)]

\* The elders a section with key k has in Retry, ApprovalShare and Approval
\* responses (two consecutive addresses).
EldersOf(k) == {1 + (k % MaxAddr), 1 + ((k + 1) % MaxAddr)}

SapOf(prefix, k) == [prefix |-> prefix, key |-> k, elders |-> EldersOf(k)]

(***************************************************************************)
(* NetworkPrefixMap: genesis key and the latest signed SAP per prefix      *)
(* (<<>> for no entry, <<signed_sap>> for an entry).                       *)
(***************************************************************************)
NewPrefixMap(genesis) == [genesis_key |-> genesis, sections |-> [p \in Prefixes |-> <<>>]]

StoredPrefixes(pm) == {p \in Prefixes : pm.sections[p] # <<>>}

\* get_signed(prefix)
get_signed(pm, p) == pm.sections[p]

\* section_by_name(name): the stored SAP with the longest matching prefix.
MatchingPrefixes(pm, name) == {p \in StoredPrefixes(pm) : matches(p, name)}

section_by_name(pm, name) ==
    LET M == MatchingPrefixes(pm, name)
    IN  IF M = {} THEN <<>>
        ELSE LET p == CHOOSE q \in M : \A r \in M : Len(r) <= Len(q)
             IN  <<pm.sections[p][1].value>>

\* closest_or_opposite(name, None): the stored signed SAPs whose prefix is
\* closest to the name (several when the distance does not decide).
closest_or_opposite(pm, name) ==
    LET S == StoredPrefixes(pm)
        C == {p \in S : \A q \in S : CommonPrefixLen(q, name) <= CommonPrefixLen(p, name)}
    IN  {pm.sections[p][1] : p \in C}

\* The keys a proof chain may start from: genesis and every stored key.
TrustedKeys(pm) == {pm.genesis_key} \cup {pm.sections[p][1].value.key : p \in StoredPrefixes(pm)}

\* update(signed_sap, proof_chain): <<"err", pm>>, <<"same", pm>> (Ok(false))
\* or <<"new", pm'>> (Ok(true)).
Covered(sections, q) ==
    \A b \in Bit : \E p \in Prefixes :
        /\ sections[p] # <<>>
        /\ (p = Append(q, b) \/ IsExtensionOf(p, Append(q, b)))

InsertSap(pm, ssap) ==
    LET p == ssap.value.prefix
        added == [pm.sections EXCEPT ![p] = <<ssap>>]
        pruned == [q \in Prefixes |->
                      IF IsExtensionOf(p, q) /\ Covered(added, q) THEN <<>> ELSE added[q]]
    IN  [pm EXCEPT !.sections = pruned]

prefix_map_update(pm, ssap, chain) ==
    LET sap == ssap.value
        stored == pm.sections[sap.prefix]
    IN  IF \/ ~sap_self_verify(ssap)
           \/ ssap.sig.public_key # sap.key
           \/ ~chain_self_verify(chain)
           \/ last_key(chain) # sap.key
           \/ root_key(chain) \notin TrustedKeys(pm)
        THEN <<"err", pm>>
        ELSE IF stored # <<>> /\ stored[1].value.key = sap.key
        THEN <<"same", pm>>
        ELSE IF stored # <<>> /\ ~has_key(chain, stored[1].value.key)
        THEN <<"err", pm>>
        ELSE IF \E q \in StoredPrefixes(pm) : IsExtensionOf(q, sap.prefix)
        THEN <<"same", pm>>
        ELSE <<"new", InsertSap(pm, ssap)>>

(***************************************************************************)
(* SignatureAggregator: per key, the share indices collected and whether   *)
(* they were combined.                                                     *)
(***************************************************************************)
NewAggregator == [shares |-> {}, done |-> FALSE]

\* add(payload, sig_share): <<outcome, aggregator'>>
aggregator_add(agg, payload, share) ==
    IF share.signs # payload THEN <<"FaultyShare", agg>>
    ELSE IF agg.done THEN <<"AlreadyAggregated", agg>>
    ELSE LET shares == agg.shares \cup {share.index}
         IN  IF Cardinality(shares) > Threshold
             THEN <<"Ok", [shares |-> shares, done |-> TRUE]>>
             ELSE <<"NotEnoughShares", [shares |-> shares, done |-> FALSE]>>

\* The combined signature of a key set over the payload.
CombinedSig(k, payload) == [public_key |-> k, signs |-> payload]

(***************************************************************************)
(* Identity regeneration on Retry.                                         *)
(***************************************************************************)
\* join.rs: while cur_age > 0 { new_prefix = new_prefix.pushed(cur_age % 2 == 1); cur_age /= 2 }
RECURSIVE PushAgeBits(_, _)
PushAgeBits(cur_age, new_prefix) ==
    IF cur_age > 0
    THEN PushAgeBits(cur_age \div 2, Append(new_prefix, cur_age % 2))
    ELSE new_prefix

\* The prefix read off the bits of expected_age itself.
AgePrefixOfWholeAge(expected_age) == PushAgeBits(expected_age, <<>>)

AgePrefix(expected_age) == PushAgeBits(expected_age \div 2, <<>>)

\* ed25519::gen_keypair(range, age): any name in the prefix's range whose age
\* byte is the requested age.
gen_keypair(prefix, age) ==
    {[bits |-> b, age |-> age] : b \in {c \in BitSeqs(NameBits) :
        \A i \in 1..Len(prefix) : i <= NameBits => c[i] = prefix[i]}}

RegenerateWrong(age, expected_age, agg) == age # expected_age /\ ~agg

\* join.rs:367-370, without the `!self.aggregated` condition.
RegenerateThoughAggregated(age, expected_age, agg) ==
    age # expected_age /\ (age > expected_age \/ age <= MIN_ADULT_AGE)

\* join.rs:367-369
ShouldRegenerate(age, expected_age, agg) ==
    /\ age # expected_age
    /\ (age > expected_age \/ age <= MIN_ADULT_AGE)
    /\ ~agg

(***************************************************************************)
(* NetworkKnowledge::new (mod.rs:60-135).                                  *)
(***************************************************************************)
\* passed_prefix_map is <<>> (None) or <<prefix_map>> (Some).
\* mod.rs:121-134: the value `new` builds once its checks have passed.
NewKnowledge(genesis_key, chain, signed_sap, passed_prefix_map) ==
    LET pm == IF passed_prefix_map # <<>> THEN passed_prefix_map[1]
              ELSE NewPrefixMap(genesis_key)
    IN  [kind |-> "ok",
         genesis_key |-> genesis_key,
         chain |-> chain,
         signed_sap |-> signed_sap,
         section_peers |-> {},
         prefix_map |-> prefix_map_update(pm, signed_sap, chain)[2],
         all_sections_chains |-> chain]

\* `new` without any of its checks.
NetworkKnowledge_new_unchecked(genesis_key, chain, signed_sap, passed_prefix_map) ==
    NewKnowledge(genesis_key, chain, signed_sap, passed_prefix_map)

\* `new` without the comparison of the passed prefix map's genesis key.
NetworkKnowledge_new_any_genesis(genesis_key, chain, signed_sap, passed_prefix_map) ==
    IF genesis_key # root_key(chain)
    THEN [kind |-> "err", error |-> "UntrustedProofChain"]
    ELSE IF signed_sap.sig.public_key # last_key(chain)
    THEN [kind |-> "err", error |-> "UntrustedSectionAuthProvider"]
    ELSE IF ~sap_self_verify(signed_sap)
    THEN [kind |-> "err", error |-> "UntrustedSectionAuthProvider"]
    ELSE IF signed_sap.sig.public_key # signed_sap.value.key
    THEN [kind |-> "err", error |-> "UntrustedSectionAuthProvider"]
    ELSE IF ~chain_self_verify(chain)
    THEN [kind |-> "err", error |-> "UntrustedProofChain"]
    ELSE NewKnowledge(genesis_key, chain, signed_sap, passed_prefix_map)

\* `new` without the self-verification of the chain.
NetworkKnowledge_new_unverified_chain(genesis_key, chain, signed_sap, passed_prefix_map) ==
    IF genesis_key # root_key(chain)
    THEN [kind |-> "err", error |-> "UntrustedProofChain"]
    ELSE IF signed_sap.sig.public_key # last_key(chain)
    THEN [kind |-> "err", error |-> "UntrustedSectionAuthProvider"]
    ELSE IF ~sap_self_verify(signed_sap)
    THEN [kind |-> "err", error |-> "UntrustedSectionAuthProvider"]
    ELSE IF signed_sap.sig.public_key # signed_sap.value.key
    THEN [kind |-> "err", error |-> "UntrustedSectionAuthProvider"]
    ELSE IF passed_prefix_map # <<>> /\ passed_prefix_map[1].genesis_key # genesis_key
    THEN [kind |-> "err", error |-> "InvalidGenesisKey"]
    ELSE NewKnowledge(genesis_key, chain, signed_sap, passed_prefix_map)

NetworkKnowledge_new(genesis_key, chain, signed_sap, passed_prefix_map) ==
    IF genesis_key # root_key(chain)
    THEN [kind |-> "err", error |-> "UntrustedProofChain"]
    ELSE IF signed_sap.sig.public_key # last_key(chain)
    THEN [kind |-> "err", error |-> "UntrustedSectionAuthProvider"]
    ELSE IF ~sap_self_verify(signed_sap)
    THEN [kind |-> "err", error |-> "UntrustedSectionAuthProvider"]
    ELSE IF signed_sap.sig.public_key # signed_sap.value.key
    THEN [kind |-> "err", error |-> "UntrustedSectionAuthProvider"]
    ELSE IF ~chain_self_verify(chain)
    THEN [kind |-> "err", error |-> "UntrustedProofChain"]
    ELSE IF passed_prefix_map # <<>> /\ passed_prefix_map[1].genesis_key # genesis_key
    THEN [kind |-> "err", error |-> "InvalidGenesisKey"]
    ELSE NewKnowledge(genesis_key, chain, signed_sap, passed_prefix_map)

(***************************************************************************)
(* Membership (membership.rs): the section's member list as a sequence of  *)
(* generations, each decided by one consensus instance among the elders.   *)
(***************************************************************************)
\* membership.rs:13
SOFT_MAX_MEMBERS == 21

\* Node names are 1..MaxMember, one more than a section admits; the names
\* proposals are about are the ones around the capacity limit.
MaxMember == SOFT_MAX_MEMBERS + 1
\* n_elders of Membership::from; this node is elder OurId.
NElders == 3
\* Number of propose and handle_signed_vote calls in a run.
MaxMemberSteps == 2

MemberNames == 1..MaxMember
ProposalNames == SOFT_MAX_MEMBERS..MaxMember
MembershipStates == {"Joined", "Left", "Relocated"}
Elders == 1..NElders
OurId == 1
Generations == 0..(MaxMemberSteps + 1)
\* The generations a vote received at generation gen is about: the one
\* last decided, the one in progress and the one after it.
NearGenerations(gen) == {g \in Generations : gen <= g /\ g <= gen + 2}

\* NodeState: the name and the MembershipState.
MemberState(name, state) == [name |-> name, state |-> state]
\* The node states proposed: the nodes around the limit join or leave.
ProposedStates == {MemberState(n, s) : n \in ProposalNames, s \in {"Joined", "Left"}}

\* Order of MembershipState's variants, the order in which the states of one
\* name are visited in a sorted collection.
StateRank(state) == CASE state = "Joined" -> 0 [] state = "Left" -> 1 [] OTHER -> 2

\* The bootstrap members of a section with n nodes.
BootstrapOf(n) == {MemberState(i, "Joined") : i \in 1..n}

(***************************************************************************)
(* sn_membership::Consensus for a fixed elder set: the votes in flight by  *)
(* voter id and the optional decision.  A signed vote carries its voter,   *)
(* its generation, the kind of its ballot and the proposals of the ballot. *)
(* A SuperMajority ballot is built from collected votes: from the votes of *)
(* a super-majority of the elders ("votes"), or, reconstructed from a      *)
(* decision, from their SuperMajority ballots ("super_majorities").        *)
(***************************************************************************)
SignedVote(voter, gen, ballot, proposals, over) ==
    [voter |-> voter, gen |-> gen, ballot |-> ballot, proposals |-> proposals, over |-> over]

BallotOf(proposals) == IF Cardinality(proposals) = 1 THEN "Propose" ELSE "Merge"

\* Consensus::from: the consensus of the elder `id`, nothing voted or decided.
NewConsensus(id) == [id |-> id, votes |-> [e \in Elders |-> <<>>], decision |-> <<>>]

SuperMajority(count) == 3 * count > 2 * NElders

\* How far a ballot is in the protocol: a vote, a super-majority over votes,
\* a super-majority over super-majorities.
BallotRank(v) == CASE v.over = "none" -> 0 [] v.over = "votes" -> 1 [] OTHER -> 2

\* detect_byzantine_voters: a voter that signs a ballot dropping proposals of
\* its earlier ballot of the same generation is faulty.
detect_byzantine_voters(c, v) ==
    /\ c.votes[v.voter] # <<>>
    /\ ~(c.votes[v.voter][1].proposals \subseteq v.proposals)

\* Consensus::cast_vote: logs this node's own vote.
consensus_cast_vote(c, v) == [c EXCEPT !.votes[v.voter] = <<v>>]

\* Consensus::handle_signed_vote: <<response, consensus afterwards>>.  A
\* decided consensus is final.  Otherwise the vote is merged into the votes
\* in flight; once the votes collected for its proposals come from a
\* super-majority this node casts its own SuperMajority ballot (Broadcast),
\* and once the SuperMajority ballots do, the consensus decides.
consensus_handle_signed_vote(c, v) ==
    IF c.decision # <<>> THEN <<"WaitingForMoreVotes", c>>
    ELSE IF detect_byzantine_voters(c, v) THEN <<"Err", c>>
    ELSE LET logged == IF c.votes[v.voter] = <<>> \/ BallotRank(v) >= BallotRank(c.votes[v.voter][1])
                       THEN [c.votes EXCEPT ![v.voter] = <<v>>]
                       ELSE c.votes
             collected == {e \in Elders : logged[e] # <<>> /\ logged[e][1].proposals = v.proposals}
             own == SignedVote(c.id, v.gen, "SuperMajority", v.proposals, "votes")
             voted == IF /\ v.over # "none" \/ SuperMajority(Cardinality(collected))
                         /\ c.id \notin {e \in collected : logged[e][1].over # "none"}
                      THEN [logged EXCEPT ![c.id] = <<own>>]
                      ELSE logged
             super_majorities == {voted[e][1] : e \in {e \in Elders : /\ voted[e] # <<>>
                                                                     /\ voted[e][1].proposals = v.proposals
                                                                     /\ voted[e][1].over # "none"}}
         IN  IF v.over = "super_majorities" \/ SuperMajority(Cardinality(super_majorities))
             THEN <<"Decided", [id |-> c.id,
                                votes |-> voted,
                                decision |-> <<[proposals |-> v.proposals,
                                                votes |-> super_majorities,
                                                faults |-> {}]>>]>>
             ELSE IF voted # logged THEN <<"Broadcast", [c EXCEPT !.votes = voted]>>
             ELSE <<"WaitingForMoreVotes", [c EXCEPT !.votes = voted]>>

\* Consensus::build_super_majority_vote: this node's SuperMajority ballot
\* over the SuperMajority ballots of a decision.
build_super_majority_vote(c, votes, faults, gen) ==
    SignedVote(c.id, gen, "SuperMajority", UNION {w.proposals : w \in votes}, "super_majorities")

(***************************************************************************)
(* struct Membership and its queries.                                      *)
(***************************************************************************)
\* Membership::from (membership.rs:25-37)
MembershipFrom(id, bootstrap_members) ==
    [consensus |-> NewConsensus(id),
     bootstrap_members |-> bootstrap_members,
     gen |-> 0,
     history |-> <<>>]

SetMin(S) == CHOOSE x \in S : \A y \in S : x <= y

\* An insert under the generation after the vote's.
HistoryInsertNext(history, gen, c) ==
    [g \in DOMAIN history \cup {gen + 1} |-> IF g = gen + 1 THEN c ELSE history[g]]

\* BTreeMap::insert of a generation's consensus.
HistoryInsert(history, gen, c) ==
    [g \in DOMAIN history \cup {gen} |-> IF g = gen THEN c ELSE history[g]]

\* The lookup with the in-progress consensus taken for generation gen.
consensus_at_gen_current(m, gen) ==
    IF gen = m.gen
    THEN [kind |-> "ok", consensus |-> m.consensus]
    ELSE IF gen \in DOMAIN m.history
    THEN [kind |-> "ok", consensus |-> m.history[gen]]
    ELSE [kind |-> "err", error |-> "BadGeneration", requested_gen |-> gen, gen |-> m.gen]

\* membership.rs:39-48 (and 50-59, the same lookup for a mutable borrow)
consensus_at_gen(m, gen) ==
    IF gen = m.gen + 1
    THEN [kind |-> "ok", consensus |-> m.consensus]
    ELSE IF gen \in DOMAIN m.history
    THEN [kind |-> "ok", consensus |-> m.history[gen]]
    ELSE [kind |-> "err", error |-> "BadGeneration", requested_gen |-> gen, gen |-> m.gen]

\* membership.rs:62-63: the member map built from the bootstrap members.
BootstrapMembers(bootstrap_members) ==
    [n \in {b.name : b \in bootstrap_members} |->
        LET states == {s \in MembershipStates : MemberState(n, s) \in bootstrap_members}
        IN  CHOOSE s \in states : \A t \in states : StateRank(t) <= StateRank(s)]

\* membership.rs:79-81: inserting the node states of one decision.
InsertProposals(members, proposals) ==
    [n \in DOMAIN members \cup {p.name : p \in proposals} |->
        LET states == {s \in MembershipStates : MemberState(n, s) \in proposals}
        IN  IF states = {} THEN members[n]
            ELSE CHOOSE s \in states : \A t \in states : StateRank(t) <= StateRank(s)]

\* membership.rs:69-88: the walk over the history in ascending generation.
RECURSIVE WalkHistory(_, _, _, _)
WalkHistory(history, todo, members, gen) ==
    IF todo = {} THEN [kind |-> "err", error |-> "InvalidGeneration", gen |-> gen]
    ELSE LET history_gen == SetMin(todo)
             consensus == history[history_gen]
         IN  IF consensus.decision = <<>> THEN [kind |-> "panic"]
             ELSE LET inserted == InsertProposals(members, consensus.decision[1].proposals)
                  IN  IF history_gen = gen THEN [kind |-> "ok", members |-> inserted]
                      ELSE WalkHistory(history, todo \ {history_gen}, inserted, gen)

\* The walk alone, without the early return for generation 0.
section_member_states_walk_only(m, gen) ==
    WalkHistory(m.history, DOMAIN m.history, BootstrapMembers(m.bootstrap_members), gen)

\* membership.rs:61-89
section_member_states(m, gen) ==
    IF gen = 0 THEN [kind |-> "ok", members |-> BootstrapMembers(m.bootstrap_members)]
    ELSE WalkHistory(m.history, DOMAIN m.history, BootstrapMembers(m.bootstrap_members), gen)

\* The validation with the capacity reached only beyond SOFT_MAX_MEMBERS.
validate_node_state_above_capacity(m, node_state, gen) ==
    IF ~(gen > 0) THEN "panic"
    ELSE LET got == section_member_states(m, gen - 1)
         IN  IF got.kind = "panic" THEN "panic"
             ELSE IF got.kind = "err" THEN got.error
             ELSE IF node_state.state = "Joined"
             THEN IF node_state.name \in DOMAIN got.members
                  THEN "JoinRequestForExistingMember"
                  ELSE IF Cardinality(DOMAIN got.members) > SOFT_MAX_MEMBERS
                  THEN "MembersAtCapacity"
                  ELSE "Ok"
             ELSE IF /\ node_state.name \in DOMAIN got.members
                     /\ got.members[node_state.name] = "Joined"
             THEN "Ok"
             ELSE "LeaveRequestForNonMember"

\* The validation that lets any known node leave, whatever its state.
validate_node_state_any_known(m, node_state, gen) ==
    IF ~(gen > 0) THEN "panic"
    ELSE LET got == section_member_states(m, gen - 1)
         IN  IF got.kind = "panic" THEN "panic"
             ELSE IF got.kind = "err" THEN got.error
             ELSE IF node_state.state = "Joined"
             THEN IF node_state.name \in DOMAIN got.members
                  THEN "JoinRequestForExistingMember"
                  ELSE IF Cardinality(DOMAIN got.members) >= SOFT_MAX_MEMBERS
                  THEN "MembersAtCapacity"
                  ELSE "Ok"
             ELSE IF node_state.name \in DOMAIN got.members
             THEN "Ok"
             ELSE "LeaveRequestForNonMember"

\* membership.rs:176-201; the result is "Ok", the error, or "panic" for the
\* failed assertion.
validate_node_state(m, node_state, gen) ==
    IF ~(gen > 0) THEN "panic"
    ELSE LET got == section_member_states(m, gen - 1)
         IN  IF got.kind = "panic" THEN "panic"
             ELSE IF got.kind = "err" THEN got.error
             ELSE IF node_state.state = "Joined"
             THEN IF node_state.name \in DOMAIN got.members
                  THEN "JoinRequestForExistingMember"
                  ELSE IF Cardinality(DOMAIN got.members) >= SOFT_MAX_MEMBERS
                  THEN "MembersAtCapacity"
                  ELSE "Ok"
             ELSE IF /\ node_state.name \in DOMAIN got.members
                     /\ got.members[node_state.name] = "Joined"
             THEN "Ok"
             ELSE "LeaveRequestForNonMember"

\* membership.rs:166-174: the results validate_proposals can give; try_for_each
\* stops at the first proposal that fails, in the order the vote lists them.
validate_proposals(m, signed_vote) ==
    IF consensus_at_gen(m, signed_vote.gen).kind = "err" THEN {"BadGeneration"}
    ELSE LET failures == {validate_node_state(m, p, signed_vote.gen) : p \in signed_vote.proposals}
                            \ {"Ok"}
         IN  IF failures = {} THEN {"Ok"} ELSE failures

(***************************************************************************)
(* The operations of Membership.  Each gives the results it can return and *)
(* the Membership it leaves.                                               *)
(***************************************************************************)
\* propose that casts its vote before it validates the proposal.
propose_cast_then_validate(m, node_state) ==
    LET signed_vote == SignedVote(m.consensus.id, m.gen + 1, "Propose", {node_state}, "none")
    IN  [results |-> validate_proposals(m, signed_vote),
         membership |-> [m EXCEPT !.consensus = consensus_cast_vote(@, signed_vote)]]

\* membership.rs:91-104
propose(m, node_state) ==
    LET signed_vote == SignedVote(m.consensus.id, m.gen + 1, "Propose", {node_state}, "none")
        validity == validate_proposals(m, signed_vote)
    IN  IF validity # {"Ok"}
        THEN [results |-> validity, membership |-> m]
        ELSE IF detect_byzantine_voters(m.consensus, signed_vote)
        THEN [results |-> {"AttemptedFaultyProposal"}, membership |-> m]
        ELSE [results |-> {"Ok"},
              membership |-> [m EXCEPT !.consensus = consensus_cast_vote(@, signed_vote)]]

\* The condition without the comparison of the vote's generation.
ShouldAdvanceWhenDecided(consensus, vote_gen, gen) ==
    consensus.decision # <<>>

\* The condition without the test that the consensus has decided.
ShouldAdvanceUndecided(consensus, vote_gen, gen) ==
    vote_gen = gen + 1

\* membership.rs:140: the condition under which the generation advances.
ShouldAdvance(consensus, vote_gen, gen) ==
    consensus.decision # <<>> /\ vote_gen = gen + 1

\* membership.rs:129-153
handle_signed_vote(m, signed_vote) ==
    LET validity == validate_proposals(m, signed_vote)
        vote_gen == signed_vote.gen
        handled == consensus_handle_signed_vote(consensus_at_gen(m, vote_gen).consensus,
                                                signed_vote)
        consensus == handled[2]
        borrowed == IF vote_gen = m.gen + 1
                    THEN [m EXCEPT !.consensus = consensus]
                    ELSE [m EXCEPT !.history[vote_gen] = consensus]
    IN  IF validity # {"Ok"}
        THEN [results |-> validity, membership |-> m]
        ELSE IF handled[1] = "Err"
        THEN [results |-> {"FaultyVote"}, membership |-> m]
        ELSE IF ShouldAdvance(consensus, vote_gen, m.gen)
        THEN [results |-> {handled[1]},
              membership |-> [borrowed EXCEPT
                                !.consensus = NewConsensus(m.consensus.id),
                                !.history = HistoryInsert(@, vote_gen, borrowed.consensus),
                                !.gen = vote_gen]]
        ELSE [results |-> {handled[1]}, membership |-> borrowed]

RECURSIVE SortedSeq(_)
SortedSeq(S) == IF S = {} THEN <<>> ELSE <<SetMin(S)>> \o SortedSeq(S \ {SetMin(S)})

\* The answer without the decided generations.
anti_entropy_in_progress_only(m, from_gen) ==
    LET voters == SortedSeq({e \in Elders : m.consensus.votes[e] # <<>>})
    IN  [i \in 1..Len(voters) |-> m.consensus.votes[voters[i]][1]]

\* The answer that starts at from_gen itself.
anti_entropy_inclusive(m, from_gen) ==
    LET gens == SortedSeq({g \in DOMAIN m.history : /\ g >= from_gen
                                                    /\ m.history[g].decision # <<>>})
        msgs == [i \in 1..Len(gens) |->
                    build_super_majority_vote(m.history[gens[i]],
                                              m.history[gens[i]].decision[1].votes,
                                              m.history[gens[i]].decision[1].faults,
                                              gens[i])]
        voters == SortedSeq({e \in Elders : m.consensus.votes[e] # <<>>})
    IN  msgs \o [i \in 1..Len(voters) |-> m.consensus.votes[voters[i]][1]]

\* membership.rs:106-123
anti_entropy(m, from_gen) ==
    LET gens == SortedSeq({g \in DOMAIN m.history : /\ g > from_gen
                                                    /\ m.history[g].decision # <<>>})
        msgs == [i \in 1..Len(gens) |->
                    build_super_majority_vote(m.history[gens[i]],
                                              m.history[gens[i]].decision[1].votes,
                                              m.history[gens[i]].decision[1].faults,
                                              gens[i])]
        voters == SortedSeq({e \in Elders : m.consensus.votes[e] # <<>>})
    IN  msgs \o [i \in 1..Len(voters) |-> m.consensus.votes[voters[i]][1]]

(***************************************************************************)
(* State of one join run (struct Join, the locals of Join::join, and what  *)
(* the run produced).                                                      *)
(***************************************************************************)
VARIABLES
    pc,                     \* "start" (constructed), "loop" (in the receive loop), "done"
    result,                 \* what Join::run returned: Ok((node, knowledge)) or Err
    node,                   \* self.node: the joiner's name (bits and age)
    section_key,            \* the local `section_key` of Join::join
    prefix,                 \* self.prefix
    prefix_map,             \* self.prefix_map
    signature_aggregators,  \* self.signature_aggregators: key -> <<>> or <<aggregator>>
    node_state_serialized,  \* self.node_state_serialized: <<>> or <<bytes>>
    aggregated,             \* self.aggregated
    used_recipient_saps,    \* the local `used_recipient_saps`
    recipients,             \* the parameter `recipients` of Join::join
    out,                    \* what the last step handed to send_tx, in order
    last,                   \* the event the last step processed
    aggregated_sent,        \* per key: JoinRequests with `aggregated` set handed to send_tx
    steps,                  \* number of events processed
    membership,             \* a Membership: consensus, bootstrap_members, gen, history
    m_last,                 \* the Membership operation of the last step and its result
    m_steps,                \* number of propose and handle_signed_vote calls made
    channel,                \* the mpsc channel of join_network: its buffer, and whether send_tx is dropped
    run_task,               \* the future state.run(..): "running" or "done"
    send_task,              \* the future send_messages(..): its position and the pair it holds
    enqueued,               \* the pairs send_tx.send accepted, in order
    transported,            \* the pairs handed to comm.send, in order
    returned,               \* whether join_network has returned
    knowledge,              \* a NetworkKnowledge: its fields, or none before construction
    k_op,                   \* the NetworkKnowledge call in progress: where it is suspended,
                            \* the lock guards it holds there, its locals
    k_last,                 \* the NetworkKnowledge call that returned last, and its result
    k_steps                 \* number of NetworkKnowledge calls started

jvars == <<pc, result, node, section_key, prefix, prefix_map, signature_aggregators,
           node_state_serialized, aggregated, used_recipient_saps, recipients, out, last,
           aggregated_sent, steps>>

mvars == <<membership, m_last, m_steps>>

svars == <<channel, run_task, send_task, enqueued, transported, returned>>

kvars == <<knowledge, k_op, k_last, k_steps>>

vars == <<jvars, mvars, svars, kvars>>

joinState == <<node, section_key, prefix, prefix_map, signature_aggregators,
               node_state_serialized, aggregated, used_recipient_saps, recipients>>

NoResult == [kind |-> "none"]

\* JoinRequest
JoinRequest(key, proof, agg) ==
    [section_key |-> key, resource_proof_response |-> proof, aggregated |-> agg]

\* send_join_requests (join.rs:503-540): the (wire message, recipients) pair
\* put on send_tx.  The wire message is built from the node's identity at the
\* time of the send.
WireSend(sender_node, join_request, to, key, should_backoff) ==
    [src_name |-> sender_node,
     dst |-> [name |-> sender_node, section_pk |-> key],
     join_request |-> join_request,
     recipients |-> to,
     should_backoff |-> should_backoff]

\* The Membership of a run that only joins.
MembershipUnused ==
    /\ membership = MembershipFrom(OurId, {})
    /\ m_last = [op |-> "none", gen |-> 0, result |-> "Ok"]
    /\ m_steps = 0

\* The channel and the two futures of a run whose sends are not followed.
SenderUnused ==
    /\ channel = [queue |-> <<>>, closed |-> FALSE]
    /\ run_task = "off"
    /\ send_task = [pc |-> "off", pair |-> <<>>]
    /\ enqueued = <<>>
    /\ transported = <<>>
    /\ returned = FALSE

\* No NetworkKnowledge is used.
KnowledgeUnused ==
    /\ knowledge = [kind |-> "none"]
    /\ k_op = [pc |-> "idle", held |-> {}, locals |-> <<>>]
    /\ k_last = [op |-> "none"]
    /\ k_steps = 0

\* The prefix map read from the disk cache: empty, or holding the genesis
\* section's SAP.
CachedPrefixMaps ==
    { NewPrefixMap(GenesisKey),
      InsertSap(NewPrefixMap(GenesisKey),
                [value |-> SapOf(<<>>, GenesisKey), sig |-> GoodSapSig(SapOf(<<>>, GenesisKey))]) }

Init ==
    /\ pc = "start"
    /\ result = NoResult
    /\ node \in gen_keypair(<<>>, MIN_ADULT_AGE)
    /\ section_key = GenesisKey
    /\ prefix = <<>>
    /\ prefix_map \in CachedPrefixMaps
    /\ signature_aggregators = [k \in Keys |-> <<>>]
    /\ node_state_serialized = <<>>
    /\ aggregated = FALSE
    /\ used_recipient_saps = {}
    /\ recipients = {}
    /\ out = <<>>
    /\ last = [kind |-> "New"]
    /\ aggregated_sent = [k \in Keys |-> 0]
    /\ steps = 0
    /\ MembershipUnused
    /\ SenderUnused
    /\ KnowledgeUnused

(***************************************************************************)
(* Join::run and the first send of Join::join (join.rs:117-158).           *)
(***************************************************************************)
Run(bootstrap_addr) ==
    /\ pc = "start"
    /\ LET sap == section_by_name(prefix_map, node)
           target == IF sap # <<>> THEN sap[1].key ELSE prefix_map.genesis_key
           to == IF sap # <<>> THEN sap[1].elders ELSE {bootstrap_addr}
       IN  /\ section_key' = target
           /\ recipients' = to
           /\ out' = <<WireSend(node, JoinRequest(target, <<>>, <<>>), to, target, FALSE)>>
    /\ pc' = "loop"
    /\ last' = [kind |-> "Run"]
    /\ UNCHANGED <<result, node, prefix, prefix_map, signature_aggregators,
                   node_state_serialized, aggregated, used_recipient_saps,
                   aggregated_sent, steps>>
    /\ UNCHANGED <<mvars, svars, kvars>>

Receiving == pc = "loop"

(***************************************************************************)
(* receive_join_response (join.rs:545-588).                                *)
(***************************************************************************)
DiscardedEvents == {"ServiceMsg", "NodeBlsShareAuthMsg", "OtherSystemMsg", "Undecodable"}

\* A reception that treats the skipped event as the end of the channel.
RecvDiscardedEnds(event) ==
    /\ Receiving
    /\ steps' = steps + 1
    /\ last' = [kind |-> "Discarded", event |-> event]
    /\ out' = <<>>
    /\ pc' = "done"
    /\ result' = [kind |-> "err", error |-> "InvalidState"]
    /\ UNCHANGED <<joinState, aggregated_sent>>
    /\ UNCHANGED <<mvars, svars, kvars>>

\* An event that is not a node-authenticated JoinResponse is skipped.
RecvDiscarded(event) ==
    /\ Receiving
    /\ steps' = steps + 1
    /\ last' = [kind |-> "Discarded", event |-> event]
    /\ out' = <<>>
    /\ UNCHANGED <<pc, result, joinState, aggregated_sent>>
    /\ UNCHANGED <<mvars, svars, kvars>>

\* recv() yields None: every sender of the incoming channel was dropped.
RecvClosed ==
    /\ Receiving
    /\ steps' = steps + 1
    /\ last' = [kind |-> "Closed"]
    /\ out' = <<>>
    /\ pc' = "done"
    /\ result' = [kind |-> "err", error |-> "InvalidState"]
    /\ UNCHANGED <<joinState, aggregated_sent>>
    /\ UNCHANGED <<mvars, svars, kvars>>

(***************************************************************************)
(* JoinResponse::Rejected (join.rs:163-173).                               *)
(***************************************************************************)
Rejections == {[kind |-> "Rejected", reason |-> "JoinsDisallowed"]}
              \cup {[kind |-> "Rejected", reason |-> "NodeNotReachable", addr |-> a] : a \in Addrs}

RejectedErrorWrong(resp) ==
    IF resp.reason = "NodeNotReachable"
    THEN [kind |-> "err", error |-> "NodeNotReachable", addr |-> 1 + (resp.addr % MaxAddr)]
    ELSE [kind |-> "err", error |-> "TryJoinLater"]

RejectedError(resp) ==
    IF resp.reason = "NodeNotReachable"
    THEN [kind |-> "err", error |-> "NodeNotReachable", addr |-> resp.addr]
    ELSE [kind |-> "err", error |-> "TryJoinLater"]

HandleRejected(resp) ==
    /\ Receiving
    /\ steps' = steps + 1
    /\ last' = resp
    /\ out' = <<>>
    /\ pc' = "done"
    /\ result' = RejectedError(resp)
    /\ UNCHANGED <<joinState, aggregated_sent>>
    /\ UNCHANGED <<mvars, svars, kvars>>

(***************************************************************************)
(* The responses the network may send.  Signed responses carry one of the  *)
(* SAPs of SignedSaps; each catalogue holds the well-formed responses and  *)
(* those with one part replaced (signature, chain, genesis key, name).     *)
(***************************************************************************)
SignedSaps == {SapOf(<<>>, k) : k \in Keys} \cup {SapOf(p, 1) : p \in Prefixes}

\* The SAP whose responses also come with one part replaced.
ProbedSap == SapOf(<<>>, 1)

NodeStateOf(name) == [name |-> name, state |-> "Joined"]

\* A name other than the joiner's: its first bit flipped.
OtherName(name) == [name EXCEPT !.bits[1] = 1 - @]

NodeStateSig(k, name, ok) ==
    [public_key |-> k, signs |-> IF ok THEN SerialiseNodeState(NodeStateOf(name)) ELSE Junk]

ApprovalOf(sap, sapsig, genesis, chain, name, nssig) ==
    [kind |-> "Approval",
     section_auth |-> [value |-> sap, sig |-> sapsig],
     genesis_key |-> genesis,
     section_chain |-> chain,
     node_state |-> [value |-> NodeStateOf(name), sig |-> nssig]]

Approvals(name) ==
    {ApprovalOf(sap, GoodSapSig(sap), GenesisKey, PathTo(sap.key), name,
                NodeStateSig(sap.key, name, TRUE)) : sap \in SignedSaps}
    \cup {ApprovalOf(ProbedSap, sig, GenesisKey, PathTo(ProbedSap.key), name,
                     NodeStateSig(ProbedSap.key, name, TRUE)) : sig \in SapSigs(ProbedSap)}
    \cup {ApprovalOf(ProbedSap, GoodSapSig(ProbedSap), g, c, name,
                     NodeStateSig(ProbedSap.key, name, TRUE))
            : g \in {GenesisKey, ProbedSap.key}, c \in ChainsFor(ProbedSap.key)}
    \cup {ApprovalOf(ProbedSap, GoodSapSig(ProbedSap), GenesisKey, PathTo(ProbedSap.key),
                     OtherName(name), NodeStateSig(ProbedSap.key, OtherName(name), TRUE))}
    \cup {ApprovalOf(ProbedSap, GoodSapSig(ProbedSap), GenesisKey, PathTo(ProbedSap.key), name,
                     NodeStateSig(k, name, ok)) : k \in {ProbedSap.key, ForeignKey}, ok \in BOOLEAN}

RetryOf(sap, sapsig, chain, age) ==
    [kind |-> "Retry", section_auth |-> sap, section_signed |-> sapsig,
     proof_chain |-> chain, expected_age |-> age]

Retries ==
    {RetryOf(sap, GoodSapSig(sap), PathTo(sap.key), age) : sap \in SignedSaps, age \in Ages}
    \cup {RetryOf(ProbedSap, sig, PathTo(ProbedSap.key), age) : sig \in SapSigs(ProbedSap), age \in Ages}
    \cup {RetryOf(ProbedSap, GoodSapSig(ProbedSap), c, age) : c \in ChainsFor(ProbedSap.key), age \in Ages}

ShareOf(name, k, index, ok, sap, sapsig, chain) ==
    [kind |-> "ApprovalShare",
     node_state |-> NodeStateOf(name),
     sig_share |-> [public_key_set |-> k, index |-> index,
                    signs |-> IF ok THEN SerialiseNodeState(NodeStateOf(name)) ELSE Junk],
     section_auth |-> sap,
     section_signed |-> sapsig,
     section_chain |-> chain]

\* The shares the elders of a section send for the joiner's node state.
WellFormedShares(name) ==
    {ShareOf(name, sap.key, i, TRUE, sap, GoodSapSig(sap), PathTo(sap.key))
        : sap \in SignedSaps, i \in 1..MaxShareIdx}

ApprovalShares(name) ==
    WellFormedShares(name)
    \cup {ShareOf(OtherName(name), ProbedSap.key, i, TRUE, ProbedSap, GoodSapSig(ProbedSap),
                  PathTo(ProbedSap.key)) : i \in 1..MaxShareIdx}
    \cup {ShareOf(name, ProbedSap.key, 1, FALSE, ProbedSap, GoodSapSig(ProbedSap),
                  PathTo(ProbedSap.key))}
    \cup {ShareOf(name, ProbedSap.key, 1, TRUE, ProbedSap, sig, c)
        : sig \in SapSigs(ProbedSap), c \in {PathTo(ProbedSap.key), <<ProbedSap.key>>}}

\* Shares of the joiner's node state by signature, carrying another node
\* state in their node_state field.
RelabelledShares(name) ==
    {[ShareOf(name, ProbedSap.key, i, TRUE, ProbedSap, GoodSapSig(ProbedSap), PathTo(ProbedSap.key))
        EXCEPT !.node_state = NodeStateOf(OtherName(name))] : i \in 1..MaxShareIdx}

Redirects == {[kind |-> "Redirect", section_auth |-> sap] : sap \in Saps}

Challenges == {[kind |-> "ResourceChallenge", nonce |-> 1, sender |-> a] : a \in Addrs}

(***************************************************************************)
(* JoinResponse::Approval (join.rs:174-211).                               *)
(***************************************************************************)
ApprovalForUsNoVerify(name, resp) == resp.node_state.value.name = name

\* join.rs:181-192
ApprovalForUs(name, resp) ==
    /\ resp.node_state.value.name = name
    /\ node_state_verify(resp.node_state, resp.section_chain)

\* join.rs:210, with the listing of the joiner among the section's peers.
JoinResultListed(n, nk) ==
    [kind |-> "ok", node |-> n,
     network_knowledge |-> [nk EXCEPT !.section_peers = @ \cup {n}]]

\* join.rs:210
JoinResult(n, nk) == [kind |-> "ok", node |-> n, network_knowledge |-> nk]

HandleApproval(resp) ==
    /\ Receiving
    /\ steps' = steps + 1
    /\ last' = resp
    /\ out' = <<>>
    /\ IF ApprovalForUs(node, resp)
       THEN LET nk == NetworkKnowledge_new(resp.genesis_key, resp.section_chain,
                                           resp.section_auth, <<prefix_map>>)
            IN  /\ pc' = "done"
                /\ result' = IF nk.kind = "ok"
                             THEN JoinResult(node, nk)
                             ELSE nk
       ELSE UNCHANGED <<pc, result>>
    /\ UNCHANGED <<joinState, aggregated_sent>>
    /\ UNCHANGED <<mvars, svars, kvars>>

(***************************************************************************)
(* JoinResponse::ApprovalShare (join.rs:212-319).                          *)
(***************************************************************************)
\* join.rs:262-263, taking a still incomplete aggregation for a complete one.
AggregationCompleteEarly(outcome) == outcome \in {"Ok", "NotEnoughShares"}

\* join.rs:262-263: `Ok(sig)`
AggregationComplete(outcome) == outcome = "Ok"

HandleApprovalShare(resp) ==
    /\ Receiving
    /\ steps' = steps + 1
    /\ last' = resp
    /\ LET signed_sap == [value |-> resp.section_auth, sig |-> resp.section_signed]
           pm == prefix_map_update(prefix_map, signed_sap, resp.section_chain)[2]
           serialized_details == IF node_state_serialized # <<>>
                                 THEN node_state_serialized[1]
                                 ELSE SerialiseNodeState(resp.node_state)
           sig_pk == resp.sig_share.public_key_set
           aggregator == IF signature_aggregators[sig_pk] # <<>>
                         THEN signature_aggregators[sig_pk][1]
                         ELSE NewAggregator
           added == aggregator_add(aggregator, serialized_details, resp.sig_share)
           auth == [value |-> resp.node_state, sig |-> CombinedSig(sig_pk, serialized_details)]
           targets == closest_or_opposite(pm, node)
       IN  /\ prefix_map' = pm
           /\ node_state_serialized' = <<serialized_details>>
           /\ signature_aggregators' = [signature_aggregators EXCEPT ![sig_pk] = <<added[2]>>]
           /\ aggregated' = (aggregated \/ AggregationComplete(added[1]))
           /\ IF AggregationComplete(added[1])
              THEN IF targets = {}
                   THEN out' = <<>> /\ UNCHANGED aggregated_sent
                   ELSE /\ \E sap \in targets :
                             out' = <<WireSend(node, JoinRequest(sig_pk, <<>>, <<auth>>),
                                               sap.value.elders, sig_pk, FALSE)>>
                        /\ aggregated_sent' = [aggregated_sent EXCEPT ![sig_pk] = @ + 1]
              ELSE /\ UNCHANGED aggregated_sent
                   /\ IF added[1] = "NotEnoughShares"
                      THEN out' = <<>>
                      ELSE IF sig_pk # section_key
                      THEN out' = <<WireSend(node, JoinRequest(section_key, <<>>, <<>>),
                                             recipients, section_key, TRUE)>>
                      ELSE out' = <<>>
    /\ UNCHANGED <<pc, result, node, section_key, prefix, used_recipient_saps, recipients>>
    /\ UNCHANGED <<mvars, svars, kvars>>

(***************************************************************************)
(* JoinResponse::Retry (join.rs:320-416).                                  *)
(***************************************************************************)
\* join.rs:338-347, without the comparison of the prefix with our name.
RetryForAnyName(sap, name) == TRUE

\* join.rs:338-347
RetryForUs(sap, name) == matches(sap.prefix, name)

\* The Retry arm without the `else if !is_new_sap` skip of join.rs:395-398.
HandleRetryResendsKnown(resp) ==
    /\ Receiving
    /\ steps' = steps + 1
    /\ last' = resp
    /\ LET sap == resp.section_auth
           signed_sap == [value |-> sap, sig |-> resp.section_signed]
           upd == prefix_map_update(prefix_map, signed_sap, resp.proof_chain)
           resend(n) ==
               /\ node' = n
               /\ section_key' = sap.key
               /\ out' = <<WireSend(n, JoinRequest(sap.key, <<>>, <<>>), sap.elders, sap.key, TRUE)>>
           ignore == UNCHANGED <<node, section_key>> /\ out' = <<>>
       IN  IF ~RetryForUs(sap, node) \/ upd[1] = "err"
           THEN ignore /\ UNCHANGED prefix_map
           ELSE /\ prefix_map' = upd[2]
                /\ IF ShouldRegenerate(node.age, resp.expected_age, aggregated)
                   THEN \E n \in gen_keypair(AgePrefix(resp.expected_age), resp.expected_age) :
                           resend(n)
                   ELSE resend(node)
    /\ UNCHANGED <<pc, result, prefix, signature_aggregators, node_state_serialized,
                   aggregated, used_recipient_saps, recipients, aggregated_sent>>
    /\ UNCHANGED <<mvars, svars, kvars>>

HandleRetry(resp) ==
    /\ Receiving
    /\ steps' = steps + 1
    /\ last' = resp
    /\ LET sap == resp.section_auth
           signed_sap == [value |-> sap, sig |-> resp.section_signed]
           upd == prefix_map_update(prefix_map, signed_sap, resp.proof_chain)
           resend(n) ==
               /\ node' = n
               /\ section_key' = sap.key
               /\ out' = <<WireSend(n, JoinRequest(sap.key, <<>>, <<>>), sap.elders, sap.key, TRUE)>>
           ignore == UNCHANGED <<node, section_key>> /\ out' = <<>>
       IN  IF ~RetryForUs(sap, node) \/ upd[1] = "err"
           THEN ignore /\ UNCHANGED prefix_map
           ELSE /\ prefix_map' = upd[2]
                /\ IF ShouldRegenerate(node.age, resp.expected_age, aggregated)
                   THEN \E n \in gen_keypair(AgePrefix(resp.expected_age), resp.expected_age) :
                           resend(n)
                   ELSE IF upd[1] # "new"
                   THEN ignore
                   ELSE resend(node)
    /\ UNCHANGED <<pc, result, prefix, signature_aggregators, node_state_serialized,
                   aggregated, used_recipient_saps, recipients, aggregated_sent>>
    /\ UNCHANGED <<mvars, svars, kvars>>

(***************************************************************************)
(* JoinResponse::Redirect (join.rs:417-471).                               *)
(***************************************************************************)
\* join.rs:439-443: the elders whose (addr, key) pair was not used before.
NewRecipientsAll(used, sap) == sap.elders

NewRecipients(used, sap) == {a \in sap.elders : <<a, sap.key>> \notin used}

\* join.rs:419-436, without the comparison of the prefix with our name.
RedirectNonEmpty(sap, name) == sap.elders # {}

\* join.rs:419-436
RedirectForUs(sap, name) == sap.elders # {} /\ matches(sap.prefix, name)

HandleRedirect(resp) ==
    /\ Receiving
    /\ steps' = steps + 1
    /\ last' = resp
    /\ LET sap == resp.section_auth
           new_recipients == NewRecipients(used_recipient_saps, sap)
       IN  IF ~RedirectForUs(sap, node)
           THEN /\ out' = <<>>
                /\ UNCHANGED <<section_key, prefix, used_recipient_saps>>
           ELSE /\ used_recipient_saps' = used_recipient_saps \cup {<<a, sap.key>> : a \in sap.elders}
                /\ IF new_recipients = {}
                   THEN /\ out' = <<>>
                        /\ UNCHANGED <<section_key, prefix>>
                   ELSE /\ section_key' = sap.key
                        /\ prefix' = sap.prefix
                        /\ out' = <<WireSend(node, JoinRequest(sap.key, <<>>, <<>>),
                                             new_recipients, sap.key, TRUE)>>
    /\ UNCHANGED <<pc, result, node, prefix_map, signature_aggregators, node_state_serialized,
                   aggregated, recipients, aggregated_sent>>
    /\ UNCHANGED <<mvars, svars, kvars>>

(***************************************************************************)
(* JoinResponse::ResourceChallenge (join.rs:472-497).                      *)
(***************************************************************************)
HandleResourceChallenge(resp) ==
    /\ Receiving
    /\ steps' = steps + 1
    /\ last' = resp
    /\ out' = <<WireSend(node,
                         JoinRequest(section_key, <<[nonce |-> resp.nonce, solved |-> TRUE]>>, <<>>),
                         {resp.sender}, section_key, FALSE)>>
    /\ UNCHANGED <<pc, result, joinState, aggregated_sent>>
    /\ UNCHANGED <<mvars, svars, kvars>>

Next ==
    \/ \E a \in Addrs : Run(a)
    \/ Receiving /\ steps < MaxSteps /\ \E e \in DiscardedEvents : RecvDiscarded(e)
    \/ Receiving /\ steps < MaxSteps /\ RecvClosed
    \/ Receiving /\ steps < MaxSteps /\ \E r \in Rejections : HandleRejected(r)
    \/ Receiving /\ steps < MaxSteps /\ \E r \in Approvals(node) : HandleApproval(r)
    \/ Receiving /\ steps < MaxSteps /\ \E r \in ApprovalShares(node) : HandleApprovalShare(r)
    \/ Receiving /\ steps < MaxSteps /\ \E r \in Retries : HandleRetry(r)
    \/ Receiving /\ steps < MaxSteps /\ \E r \in Redirects : HandleRedirect(r)
    \/ Receiving /\ steps < MaxSteps /\ \E r \in Challenges : HandleResourceChallenge(r)

Spec == Init /\ [][Next]_vars

\* The runs in which the elders answer with approval shares (and the joiner
\* may be told to retry): long enough to combine and receive one more share.
NextShares ==
    \/ \E a \in Addrs : Run(a)
    \/ Receiving /\ steps < MaxShareSteps /\ \E r \in ApprovalShares(node) : HandleApprovalShare(r)

SpecShares == Init /\ [][NextShares]_vars

\* The runs in which one elder puts another node state next to its share.
NextSharesRelabelled ==
    \/ \E a \in Addrs : Run(a)
    \/ Receiving /\ steps < MaxShareSteps
          /\ \E r \in WellFormedShares(node) \cup RelabelledShares(node) : HandleApprovalShare(r)

SpecSharesRelabelled == Init /\ [][NextSharesRelabelled]_vars

\* The runs in which the shares combine and Retry responses arrive afterwards:
\* long enough to combine the shares and receive one more response.
NextSharesRetry ==
    \/ \E a \in Addrs : Run(a)
    \/ Receiving /\ steps < MaxShareSteps /\ \E r \in WellFormedShares(node) : HandleApprovalShare(r)
    \/ Receiving /\ steps < MaxShareSteps /\ aggregated /\ \E r \in Retries : HandleRetry(r)

SpecSharesRetry == Init /\ [][NextSharesRetry]_vars

(***************************************************************************)
(* A Membership in use: the elder OurId of a section near its capacity     *)
(* proposes, receives signed votes and answers anti-entropy requests.      *)
(***************************************************************************)
JoinUnused ==
    /\ pc = "off"
    /\ result = NoResult
    /\ node = [bits |-> <<0, 0>>, age |-> MIN_ADULT_AGE]
    /\ section_key = GenesisKey
    /\ prefix = <<>>
    /\ prefix_map = NewPrefixMap(GenesisKey)
    /\ signature_aggregators = [k \in Keys |-> <<>>]
    /\ node_state_serialized = <<>>
    /\ aggregated = FALSE
    /\ used_recipient_saps = {}
    /\ recipients = {}
    /\ out = <<>>
    /\ last = [kind |-> "New"]
    /\ aggregated_sent = [k \in Keys |-> 0]
    /\ steps = 0

BootstrapSizes == (SOFT_MAX_MEMBERS - 1)..SOFT_MAX_MEMBERS

MembershipInit ==
    /\ JoinUnused
    /\ SenderUnused
    /\ KnowledgeUnused
    /\ membership \in {MembershipFrom(OurId, BootstrapOf(n)) : n \in BootstrapSizes}
    /\ m_last = [op |-> "from", gen |-> 0, result |-> "Ok"]
    /\ m_steps = 0

\* The sets of proposals a ballot carries: one node state, or two joins.
ProposalSets ==
    {{p} : p \in ProposedStates}
        \cup {{MemberState(a, "Joined"), MemberState(b, "Joined")} :
                a \in ProposalNames, b \in ProposalNames}

\* The signed votes the elders send.
SignedVotes ==
    {v \in [voter : Elders, gen : Generations,
            ballot : {"Propose", "Merge", "SuperMajority"}, proposals : ProposalSets,
            over : {"none", "votes", "super_majorities"}] :
        v.ballot = IF v.over = "none" THEN BallotOf(v.proposals) ELSE "SuperMajority"}

Propose(node_state) ==
    /\ m_steps < MaxMemberSteps
    /\ \E done \in {propose(membership, node_state)} :
           /\ membership' = done.membership
           /\ \E r \in done.results :
                m_last' = [op |-> "propose", gen |-> membership.gen + 1, result |-> r]
    /\ m_steps' = m_steps + 1
    /\ UNCHANGED <<jvars, svars, kvars>>

HandleSignedVote(signed_vote) ==
    /\ m_steps < MaxMemberSteps
    /\ signed_vote.gen \in NearGenerations(membership.gen)
    /\ \E done \in {handle_signed_vote(membership, signed_vote)} :
           /\ membership' = done.membership
           /\ \E r \in done.results :
                m_last' = [op |-> "handle_signed_vote", gen |-> signed_vote.gen, result |-> r]
    /\ m_steps' = m_steps + 1
    /\ UNCHANGED <<jvars, svars, kvars>>

\* anti_entropy takes &self: it answers and leaves the Membership as it is.
AntiEntropy(from_gen) ==
    /\ from_gen <= membership.gen
    /\ m_last' = [op |-> "anti_entropy", gen |-> from_gen,
                  result |-> anti_entropy(membership, from_gen)]
    /\ UNCHANGED <<membership, m_steps, jvars, svars, kvars>>

MembershipNext ==
    \/ \E node_state \in ProposedStates : Propose(node_state)
    \/ \E signed_vote \in SignedVotes : HandleSignedVote(signed_vote)
    \/ \E from_gen \in Generations : AntiEntropy(from_gen)

SpecMembership == MembershipInit /\ [][MembershipNext]_vars

(***************************************************************************)
(* Properties of the join.                                                 *)
(***************************************************************************)

\* C1: a Rejected(JoinsDisallowed) ends the join with TryJoinLater and a
\* Rejected(NodeNotReachable(addr)) ends it with NodeNotReachable of that
\* same addr; the step sends nothing and the join takes no step (so sends no
\* JoinRequest) once it has returned.
C1_RejectedEndsJoin ==
    [][ /\ pc # "done"
        /\ last'.kind = "Rejected" =>
             /\ pc' = "done"
             /\ out' = <<>>
             /\ result' = IF last'.reason = "JoinsDisallowed"
                          THEN [kind |-> "err", error |-> "TryJoinLater"]
                          ELSE [kind |-> "err", error |-> "NodeNotReachable",
                                addr |-> last'.addr] ]_vars

C1_Witness ==
    /\ last.kind = "Rejected"
    /\ last.reason = "NodeNotReachable"
    /\ result.kind = "err"
    /\ pc = "done"

C3_ApprovalAccepted ==
    [][ /\ (result'.kind = "ok" /\ result.kind # "ok") =>
             /\ last'.kind = "Approval"
             /\ last'.node_state.value.name = node
             /\ node_state_verify(last'.node_state, last'.section_chain)
             /\ result'.network_knowledge.signed_sap = last'.section_auth
             /\ result'.network_knowledge.signed_sap.value.key = last'.section_auth.value.key
             /\ result'.node = node
             /\ node' = node
        /\ (/\ last'.kind = "Approval"
            /\ ~(/\ last'.node_state.value.name = node
                 /\ node_state_verify(last'.node_state, last'.section_chain))) =>
             /\ UNCHANGED <<pc, result, joinState>>
             /\ out' = <<>> ]_vars

C3_Witness ==
    /\ result.kind = "ok"
    /\ last.kind = "Approval"
    /\ result.network_knowledge.signed_sap.value.key # GenesisKey
    /\ result.node = node

\* C4 as stated: after an accepted Approval the joiner is listed in the
\* section peers of the returned knowledge.
C4_JoinerListed ==
    result.kind = "ok" => result.node \in result.network_knowledge.section_peers

\* C4, amended: the knowledge the join returns holds the section's SAP and
\* chain only; its section peers are empty (the joiner is not listed).
C4_NoPeersYet ==
    result.kind = "ok" => result.network_knowledge.section_peers = {}

C4_Witness ==
    /\ result.kind = "ok"
    /\ result.network_knowledge.signed_sap.value.elders # {}
    /\ result.node \notin result.network_knowledge.section_peers

\* C5: the returned knowledge has the genesis key the joiner started from
\* (its prefix map's), its chain is rooted at that key and its SAP's key is
\* the chain's last key; so the Approval that succeeded carried that genesis
\* key and a chain rooted at it.
C5_GenesisPreserved ==
    /\ prefix_map.genesis_key = GenesisKey
    /\ result.kind = "ok" =>
         /\ result.network_knowledge.genesis_key = prefix_map.genesis_key
         /\ root_key(result.network_knowledge.chain) = prefix_map.genesis_key
         /\ result.network_knowledge.signed_sap.value.key
              = last_key(result.network_knowledge.chain)
         /\ last.genesis_key = prefix_map.genesis_key
         /\ root_key(last.section_chain) = prefix_map.genesis_key

C5_Witness ==
    /\ result.kind = "ok"
    /\ Len(result.network_knowledge.chain) > 1
    /\ result.network_knowledge.genesis_key = GenesisKey

\* C6 as stated: after a Redirect with a non-empty elder set and a prefix
\* matching the joiner's name, a JoinRequest goes to exactly the addresses
\* of that SAP's elders, with the SAP's key as section_key in the request
\* and in the wire destination.
C6_RedirectToAllElders ==
    (/\ last.kind = "Redirect"
     /\ last.section_auth.elders # {}
     /\ matches(last.section_auth.prefix, node)) =>
        /\ Len(out) = 1
        /\ out[1].recipients = last.section_auth.elders
        /\ out[1].join_request.section_key = last.section_auth.key
        /\ out[1].dst.section_pk = last.section_auth.key

\* C6, amended: such a Redirect sends one JoinRequest to those of the SAP's
\* elders whose (address, SAP key) pair no earlier Redirect of this run
\* recorded, with the SAP's key as section_key in the request and in the
\* wire destination, and makes that key the target; when every pair was
\* recorded before, nothing is sent and the target stays.  Either way all
\* the SAP's pairs are recorded.
C6_RedirectToNewElders ==
    [][ (/\ last'.kind = "Redirect"
         /\ last'.section_auth.elders # {}
         /\ matches(last'.section_auth.prefix, node)) =>
          LET sap == last'.section_auth
              fresh == {a \in sap.elders : <<a, sap.key>> \notin used_recipient_saps}
          IN  /\ used_recipient_saps' =
                    used_recipient_saps \cup {<<a, sap.key>> : a \in sap.elders}
              /\ IF fresh = {}
                 THEN out' = <<>> /\ UNCHANGED <<section_key, prefix>>
                 ELSE /\ Len(out') = 1
                      /\ out'[1].recipients = fresh
                      /\ out'[1].join_request = JoinRequest(sap.key, <<>>, <<>>)
                      /\ out'[1].dst.section_pk = sap.key
                      /\ section_key' = sap.key ]_vars

C6_Witness ==
    /\ last.kind = "Redirect"
    /\ Len(out) = 1
    /\ out[1].recipients # last.section_auth.elders
    /\ out[1].join_request.section_key = last.section_auth.key

\* C7: a Redirect with no elders, or with a prefix that does not match the
\* joiner's name, sends nothing and changes neither the target key, the
\* recorded (address, key) pairs, the prefix map nor anything else of the
\* join; the loop goes on, and a valid Redirect right after it, with an
\* elder not yet recorded, sends its JoinRequest.
C7_InvalidRedirectIgnored ==
    [][ /\ (/\ last'.kind = "Redirect"
            /\ (last'.section_auth.elders = {}
                \/ ~matches(last'.section_auth.prefix, node))) =>
              /\ out' = <<>>
              /\ UNCHANGED <<pc, result, joinState>>
              /\ pc' = "loop"
        /\ (/\ last.kind = "Redirect"
            /\ (last.section_auth.elders = {} \/ ~matches(last.section_auth.prefix, node))
            /\ last'.kind = "Redirect"
            /\ last'.section_auth.elders # {}
            /\ matches(last'.section_auth.prefix, node)
            /\ \E a \in last'.section_auth.elders :
                   <<a, last'.section_auth.key>> \notin used_recipient_saps) =>
              /\ Len(out') = 1
              /\ out'[1].join_request.section_key = last'.section_auth.key ]_vars

C7_Witness ==
    /\ last.kind = "Redirect"
    /\ last.section_auth.elders # {}
    /\ ~matches(last.section_auth.prefix, node)
    /\ out = <<>>
    /\ used_recipient_saps # {}

\* C8 as stated: a Retry whose prefix matches the joiner's name and which
\* the prefix map accepts, the joiner's age being the expected one, triggers
\* one JoinRequest to that SAP's elders with that SAP's key.
C8_AcceptedRetryResends ==
    [][ (/\ last'.kind = "Retry"
         /\ matches(last'.section_auth.prefix, node)
         /\ prefix_map_update(prefix_map,
                              [value |-> last'.section_auth, sig |-> last'.section_signed],
                              last'.proof_chain)[1] # "err"
         /\ node.age = last'.expected_age) =>
          /\ Len(out') = 1
          /\ out'[1].recipients = last'.section_auth.elders
          /\ out'[1].join_request.section_key = last'.section_auth.key ]_vars

\* C8, amended: a Retry whose prefix does not match the joiner's name sends
\* nothing and changes neither the prefix map, the target nor the joiner's
\* identity.  A matching Retry at the expected age sends exactly one
\* JoinRequest, to its SAP's elders with its SAP's key, when the prefix map
\* takes its SAP as a new one; when the prefix map already holds that SAP
\* (the update succeeds but reports no change) it is ignored as well.
C8_RetryByPrefix ==
    [][ last'.kind = "Retry" =>
          LET sap == last'.section_auth
              upd == prefix_map_update(prefix_map,
                                       [value |-> sap, sig |-> last'.section_signed],
                                       last'.proof_chain)
          IN  /\ ~matches(sap.prefix, node) =>
                    out' = <<>> /\ UNCHANGED <<pc, result, joinState>>
              /\ (matches(sap.prefix, node) /\ upd[1] = "new"
                  /\ node.age = last'.expected_age) =>
                    /\ Len(out') = 1
                    /\ out'[1].recipients = sap.elders
                    /\ out'[1].join_request = JoinRequest(sap.key, <<>>, <<>>)
                    /\ out'[1].dst.section_pk = sap.key
                    /\ section_key' = sap.key
                    /\ node' = node
                    /\ prefix_map' = upd[2]
              /\ (matches(sap.prefix, node) /\ upd[1] = "same"
                  /\ node.age = last'.expected_age) =>
                    out' = <<>> /\ UNCHANGED <<pc, result, joinState>> ]_vars

C8_Witness ==
    /\ last.kind = "Retry"
    /\ steps = MaxSteps
    /\ node.age = last.expected_age
    /\ node.age = MIN_ADULT_AGE
    /\ Len(out) = 1
    /\ out[1].recipients = last.section_auth.elders
    /\ section_key = last.section_auth.key

key_index(chain, k) == CHOOSE i \in 1..Len(chain) : chain[i] = k

get_proof_chain_ok(dag, from, to) ==
    /\ has_key(dag, from)
    /\ has_key(dag, to)
    /\ key_index(dag, from) <= key_index(dag, to)

\* C11: every signed SAP stored in the prefix map of a NetworkKnowledge has a
\* section key for which the all-sections-chains DAG yields a proof chain
\* starting at the genesis key; here for the NetworkKnowledge that `new`
\* builds on Approval from the prefix map the joiner accumulated.
C11_StoredKeysInDag ==
    result.kind = "ok" =>
        \A p \in StoredPrefixes(result.network_knowledge.prefix_map) :
            get_proof_chain_ok(result.network_knowledge.all_sections_chains,
                               result.network_knowledge.genesis_key,
                               result.network_knowledge.prefix_map.sections[p][1].value.key)

(***************************************************************************)
(* Properties of Membership.                                               *)
(***************************************************************************)
LookupGenerations == 0..(MaxMemberSteps + 2)

\* C12: consensus_at_gen(g) returns the in-progress consensus iff g = gen + 1,
\* the stored history entry for every g with 1 <= g <= gen, and fails with
\* BadGeneration{requested_gen: g, gen} for every other g (0 and g > gen + 1).
C12_ConsensusAtGen ==
    \A g \in LookupGenerations :
        LET got == consensus_at_gen(membership, g)
        IN  /\ g = membership.gen + 1 =>
                got = [kind |-> "ok", consensus |-> membership.consensus]
            /\ (1 <= g /\ g <= membership.gen) =>
                /\ g \in DOMAIN membership.history
                /\ got = [kind |-> "ok", consensus |-> membership.history[g]]
                /\ got.consensus # membership.consensus
            /\ (g = 0 \/ g > membership.gen + 1) =>
                got = [kind |-> "err", error |-> "BadGeneration",
                       requested_gen |-> g, gen |-> membership.gen]

C12_Witness ==
    /\ membership.gen = 1
    /\ m_last.op = "handle_signed_vote"
    /\ \E e \in Elders : membership.consensus.votes[e] # <<>>

\* C13: gen never decreases and changes only in handle_signed_vote, by
\* exactly +1, when a vote for generation gen + 1 leaves the in-progress
\* consensus decided; that step writes the decided consensus to
\* history[gen + 1] and installs a fresh consensus with no votes and no
\* decision, so the in-progress consensus is never decided before the
\* previous generation's decision is in history.
C13_GenAdvances ==
    [][ /\ membership'.gen # membership.gen =>
            /\ membership'.gen = membership.gen + 1
            /\ m_last'.op = "handle_signed_vote"
            /\ m_last'.gen = membership.gen + 1
            /\ membership.gen + 1 \in DOMAIN membership'.history
            /\ membership'.history[membership.gen + 1].decision # <<>>
            /\ \A g \in DOMAIN membership.history :
                    membership'.history[g] = membership.history[g]
            /\ membership'.consensus = NewConsensus(OurId)
        /\ (/\ m_last'.op = "handle_signed_vote"
            /\ m_last'.gen = membership.gen + 1
            /\ m_last'.result = "Decided") => membership'.gen = membership.gen + 1
        /\ membership'.gen \in DOMAIN membership'.history \/ membership'.gen = 0 ]_vars

C13_Witness ==
    /\ membership.gen = 2
    /\ m_last = [op |-> "handle_signed_vote", gen |-> 2, result |-> "Decided"]
    /\ m_steps = MaxMemberSteps

\* C14: the keys of history are exactly the generations 1..gen, every
\* history entry holds a decision, and section_member_states(g) succeeds for
\* every g in 0..gen (g = 0 giving the bootstrap members) and fails with
\* InvalidGeneration for every g > gen.
C14_HistoryDense ==
    /\ DOMAIN membership.history = 1..membership.gen
    /\ \A g \in DOMAIN membership.history : membership.history[g].decision # <<>>
    /\ \A g \in LookupGenerations :
        LET got == section_member_states(membership, g)
        IN  /\ g <= membership.gen => got.kind = "ok"
            /\ g = 0 => got.members = BootstrapMembers(membership.bootstrap_members)
            /\ g > membership.gen =>
                got = [kind |-> "err", error |-> "InvalidGeneration", gen |-> g]

C14_Witness ==
    /\ membership.gen = 1
    /\ m_last.op = "propose"
    /\ m_last.result = "Ok"
    /\ section_member_states(membership, 1).kind = "ok"
    /\ section_member_states(membership, 1).members
            # section_member_states(membership, 0).members

DecidedProposals(g) == membership.history[g].decision[1].proposals

NamesAt(g) ==
    {b.name : b \in membership.bootstrap_members}
        \cup UNION {{p.name : p \in DecidedProposals(k)} : k \in 1..g}

RECURSIVE StateAt(_, _)
StateAt(n, g) ==
    IF g = 0
    THEN IF \E b \in membership.bootstrap_members : b.name = n
         THEN (CHOOSE b \in membership.bootstrap_members : b.name = n).state
         ELSE "None"
    ELSE IF \E p \in DecidedProposals(g) : p.name = n
         THEN (CHOOSE p \in DecidedProposals(g) : p.name = n).state
         ELSE StateAt(n, g - 1)

\* The nodes validate_node_state is asked about: an old member and the nodes
\* around the capacity limit.
ValidatedNames == {1} \cup ProposalNames
ValidatedGenerations == 1..(MaxMemberSteps + 2)

C18_MembersWithinCapacity ==
    /\ Cardinality(membership.bootstrap_members) <= SOFT_MAX_MEMBERS
    /\ \A g \in 0..membership.gen :
        /\ section_member_states(membership, g).kind = "ok"
        /\ Cardinality(DOMAIN section_member_states(membership, g).members) <= SOFT_MAX_MEMBERS
    /\ \A g \in 1..membership.gen :
        \A p \in DecidedProposals(g) : p.state = "Joined" => p.name \notin NamesAt(g - 1)

\* The votes the in-progress consensus holds.
InProgressVotes == {membership.consensus.votes[e][1] :
                        e \in {v \in Elders : membership.consensus.votes[v] # <<>>}}

\* C19: anti_entropy(from_gen) returns first exactly one super-majority vote
\* per decided generation g with from_gen < g <= gen, in strictly ascending
\* generation order and none for g <= from_gen, and after them all the votes
\* the in-progress consensus holds; for from_gen >= gen only the latter.
C19_AntiEntropyOrder ==
    \A from_gen \in LookupGenerations :
        LET msgs == anti_entropy(membership, from_gen)
            decided == IF membership.gen > from_gen THEN membership.gen - from_gen ELSE 0
        IN  /\ Len(msgs) = decided + Cardinality(InProgressVotes)
            /\ \A i \in 1..decided :
                /\ msgs[i].gen = from_gen + i
                /\ msgs[i].ballot = "SuperMajority"
                /\ msgs[i].proposals = DecidedProposals(from_gen + i)
            /\ {msgs[i] : i \in (decided + 1)..Len(msgs)} = InProgressVotes
            /\ \A i \in (decided + 1)..Len(msgs) : msgs[i].gen = membership.gen + 1

C19_Witness ==
    /\ m_last.op = "anti_entropy"
    /\ m_last.gen = 0
    /\ membership.gen = 1
    /\ Len(m_last.result) = 2
    /\ m_last.result[1].gen = 1
    /\ m_last.result[2] \in InProgressVotes

(***************************************************************************)
(* Anti-entropy between two elders of the section: the elder `id` at       *)
(* generation r holds the same bootstrap members and the decisions up to r *)
(* and has no vote on generation r + 1; it hands the votes it is sent to   *)
(* handle_signed_vote one after the other.                                 *)
(***************************************************************************)
RECURSIVE FeedVotes(_, _)
FeedVotes(m, msgs) ==
    IF msgs = <<>> THEN m
    ELSE FeedVotes(handle_signed_vote(m, Head(msgs)).membership, Tail(msgs))

ReceiverAt(id, r) ==
    [consensus |-> NewConsensus(id),
     bootstrap_members |-> membership.bootstrap_members,
     gen |-> r,
     history |-> [g \in 1..r |-> [membership.history[g] EXCEPT !.id = id]]]

Decisions(m) == [g \in DOMAIN m.history |-> m.history[g].decision]

MemberStatesUpTo(m, gen) == [g \in 0..gen |-> section_member_states(m, g)]

\* C20: an elder at generation r that feeds anti_entropy(r) of a node at
\* generation s >= r into handle_signed_vote, in order, ends at generation s
\* with the sender's member states for every generation; feeding the same
\* sequence again leaves gen, the history decisions and all member states
\* unchanged.
C20_AntiEntropyCatchUp ==
    \A id \in Elders \ {OurId}, r \in 0..membership.gen :
        \A msgs \in {anti_entropy(membership, r)} :
        \A fed \in {FeedVotes(ReceiverAt(id, r), msgs)} :
        \A again \in {FeedVotes(fed, msgs)} :
            /\ fed.gen = membership.gen
            /\ MemberStatesUpTo(fed, fed.gen) = MemberStatesUpTo(membership, membership.gen)
            /\ again.gen = fed.gen
            /\ Decisions(again) = Decisions(fed)
            /\ MemberStatesUpTo(again, again.gen) = MemberStatesUpTo(fed, fed.gen)

\* C20, amended: the receiver ends at generation s, or at s + 1 when the
\* sender's in-progress votes and the ballot the receiver casts on them
\* decide generation s + 1 at the receiver; up to s it has the sender's member
\* states, and feeding the same sequence again leaves gen, the history
\* decisions and all member states unchanged.
C20_AntiEntropyCatchUpAtLeast ==
    \A id \in Elders \ {OurId}, r \in 0..membership.gen :
        \A msgs \in {anti_entropy(membership, r)} :
        \A fed \in {FeedVotes(ReceiverAt(id, r), msgs)} :
        \A again \in {FeedVotes(fed, msgs)} :
            /\ fed.gen \in {membership.gen, membership.gen + 1}
            /\ fed.gen = membership.gen + 1 => InProgressVotes # {}
            /\ MemberStatesUpTo(fed, membership.gen) = MemberStatesUpTo(membership, membership.gen)
            /\ again.gen = fed.gen
            /\ Decisions(again) = Decisions(fed)
            /\ MemberStatesUpTo(again, again.gen) = MemberStatesUpTo(fed, fed.gen)

C20_Witness ==
    /\ m_last.op = "anti_entropy"
    /\ m_last.gen < membership.gen
    /\ InProgressVotes # {}
    /\ \E id \in Elders \ {OurId} :
        /\ ReceiverAt(id, m_last.gen).gen < membership.gen
        /\ FeedVotes(ReceiverAt(id, m_last.gen), m_last.result).gen = membership.gen

ValidationErrors ==
    {"BadGeneration", "JoinRequestForExistingMember", "MembersAtCapacity",
     "LeaveRequestForNonMember"}

\* C30: a propose or handle_signed_vote that fails proposal validation
\* (BadGeneration, JoinRequestForExistingMember, MembersAtCapacity or
\* LeaveRequestForNonMember) casts and records no vote: gen, history and the
\* in-progress consensus are as before the call.
C30_FailedValidationChangesNothing ==
    [][(/\ m_last'.op \in {"propose", "handle_signed_vote"}
        /\ m_last'.result \in ValidationErrors)
            => membership' = membership]_vars

C30_Witness ==
    /\ m_last.op = "propose"
    /\ m_last.result = "JoinRequestForExistingMember"
    /\ membership.gen = 1
    /\ m_steps = MaxMemberSteps

(***************************************************************************)
(* join_network (join.rs:45-64): the join loop and send_messages run as    *)
(* the two halves of future::join, linked by mpsc::channel(1).             *)
(***************************************************************************)
\* join.rs:52
CHANNEL_CAPACITY == 1

\* The join loop sends its first request and one more per response.
MaxEnqueued == MaxSteps + 1

\* The (wire message, recipients) pairs the loop sends: a JoinRequest for a
\* section key, to that section's elders or to one bootstrap address.
WirePairs ==
    UNION {{[section_pk |-> k, recipients |-> EldersOf(k)],
            [section_pk |-> k, recipients |-> {1}]} : k \in Keys}

\* The outcomes of comm.send (join.rs:594-609).
SendStatuses ==
    {"AllRecipients", "MinDeliveryGroupSizeReached", "MinDeliveryGroupSizeFailed", "Err"}

\* A receiver that reports the end of the channel as soon as the sender is
\* dropped.
RecvNoneOnceClosed(ch) == ch.closed

\* rx.recv() returns None (join.rs:593): every sender is dropped and the
\* buffer is empty.
RecvNone(ch) == ch.closed /\ ch.queue = <<>>

SenderInit ==
    /\ JoinUnused
    /\ MembershipUnused
    /\ KnowledgeUnused
    /\ channel = [queue |-> <<>>, closed |-> FALSE]
    /\ run_task = "running"
    /\ send_task = [pc |-> "recv", pair |-> <<>>]
    /\ enqueued = <<>>
    /\ transported = <<>>
    /\ returned = FALSE

\* send_join_requests, join.rs:536: self.send_tx.send(pair).await completes
\* once the buffer has room; until then the join loop is suspended.
SendJoinRequests(pair) ==
    /\ run_task = "running"
    /\ Len(enqueued) < MaxEnqueued
    /\ Len(channel.queue) < CHANNEL_CAPACITY
    /\ channel' = [channel EXCEPT !.queue = Append(@, pair)]
    /\ enqueued' = Append(enqueued, pair)
    /\ UNCHANGED <<run_task, send_task, transported, returned, jvars, mvars, kvars>>

\* Join::run returns (it takes self by value, join.rs:117): the Join and its
\* send_tx are dropped.
RunReturns ==
    /\ run_task = "running"
    /\ run_task' = "done"
    /\ channel' = [channel EXCEPT !.closed = TRUE]
    /\ UNCHANGED <<send_task, enqueued, transported, returned, jvars, mvars, kvars>>

\* send_messages, join.rs:593: rx.recv().await returns Some(pair).
RecvPair ==
    /\ send_task.pc = "recv"
    /\ channel.queue # <<>>
    /\ send_task' = [pc |-> "send", pair |-> <<Head(channel.queue)>>]
    /\ channel' = [channel EXCEPT !.queue = Tail(@)]
    /\ UNCHANGED <<run_task, enqueued, transported, returned, jvars, mvars, kvars>>

\* send_messages, join.rs:594-609: comm.send is given the pair; whatever it
\* answers, the loop goes on.
CommSend(status) ==
    /\ send_task.pc = "send"
    /\ transported' = Append(transported, send_task.pair[1])
    /\ send_task' = [pc |-> "recv", pair |-> <<>>]
    /\ UNCHANGED <<channel, run_task, enqueued, returned, jvars, mvars, kvars>>

\* send_messages, join.rs:593 and 611: rx.recv().await returns None.
SendMessagesReturns ==
    /\ send_task.pc = "recv"
    /\ RecvNone(channel)
    /\ send_task' = [pc |-> "done", pair |-> <<>>]
    /\ UNCHANGED <<channel, run_task, enqueued, transported, returned, jvars, mvars, kvars>>

\* join_network, join.rs:61-64: future::join completes when both futures have.
JoinNetworkReturns ==
    /\ ~returned
    /\ run_task = "done"
    /\ send_task.pc = "done"
    /\ returned' = TRUE
    /\ UNCHANGED <<channel, run_task, send_task, enqueued, transported, jvars, mvars, kvars>>

SenderNext ==
    \/ \E pair \in WirePairs : SendJoinRequests(pair)
    \/ RunReturns
    \/ RecvPair
    \/ \E status \in SendStatuses : CommSend(status)
    \/ SendMessagesReturns
    \/ JoinNetworkReturns

SpecSender == SenderInit /\ [][SenderNext]_vars

\* C27: at most one pair is buffered between the join loop and the sender
\* task; the pairs handed to the transport, the pair the sender task holds and
\* the buffered pair are, in this order, exactly the pairs the join loop
\* enqueued (each handed over once, in enqueue order); and join_network has
\* returned only when the join loop has finished and every enqueued pair has
\* been handed to the transport.
C27_ChannelOfOne ==
    /\ Len(channel.queue) <= 1
    /\ transported \o send_task.pair \o channel.queue = enqueued
    /\ returned => (/\ run_task = "done"
                    /\ send_task.pc = "done"
                    /\ transported = enqueued)

C27_Witness ==
    /\ returned
    /\ Len(enqueued) = MaxEnqueued
    /\ transported = enqueued

(***************************************************************************)
(* The regeneration of the name on Retry (join.rs:377-393) for every       *)
(* expected_age a Retry can carry.                                         *)
(***************************************************************************)
\* expected_age is a u8.
MaxExpectedAge == 255

RegenerateInit ==
    /\ pc = "regenerate"
    /\ result = NoResult
    /\ node \in gen_keypair(<<>>, MIN_ADULT_AGE)
    /\ section_key = GenesisKey
    /\ prefix = <<>>
    /\ prefix_map = NewPrefixMap(GenesisKey)
    /\ signature_aggregators = [k \in Keys |-> <<>>]
    /\ node_state_serialized = <<>>
    /\ aggregated = FALSE
    /\ used_recipient_saps = {}
    /\ recipients = {}
    /\ out = <<>>
    /\ last \in {[kind |-> "Retry", expected_age |-> a, new_prefix |-> <<>>] :
                    a \in 0..MaxExpectedAge}
    /\ aggregated_sent = [k \in Keys |-> 0]
    /\ steps = 0
    /\ MembershipUnused
    /\ SenderUnused
    /\ KnowledgeUnused

\* join.rs:377-393: the new prefix from expected_age, and a name in its range
\* with that age.
Regenerate ==
    /\ pc = "regenerate"
    /\ \E new_prefix \in {AgePrefix(last.expected_age)} :
        /\ node' \in gen_keypair(new_prefix, last.expected_age)
        /\ last' = [kind |-> "Regenerated", expected_age |-> last.expected_age,
                    new_prefix |-> new_prefix]
    /\ pc' = "regenerated"
    /\ UNCHANGED <<result, section_key, prefix, prefix_map, signature_aggregators,
                   node_state_serialized, aggregated, used_recipient_saps, recipients, out,
                   aggregated_sent, steps, mvars, svars, kvars>>

SpecRegenerate == RegenerateInit /\ [][Regenerate]_vars

\* The number of significant bits of n, and bit i of n from the least
\* significant end.
SignificantBits(n) == CHOOSE k \in 0..n : n < 2^k /\ (k > 0 => n >= 2^(k - 1))

BitOf(n, i) == (n \div 2^i) % 2

\* C29: for every expected_age in 0..255 the prefix built from
\* cur = expected_age / 2 has as many bits as cur has significant bits, its
\* i-th pushed bit is bit i of cur from the least-significant end; so ages 0
\* and 1 give the empty prefix, 2k and 2k+1 give the same prefix, and no more
\* than 7 bits are pushed.
C29_PrefixFromAgeBits ==
    last.kind = "Regenerated" =>
        LET cur == last.expected_age \div 2
            new_prefix == last.new_prefix
        IN  /\ Len(new_prefix) = SignificantBits(cur)
            /\ \A i \in 0..(Len(new_prefix) - 1) : new_prefix[i + 1] = BitOf(cur, i)
            /\ last.expected_age <= 1 => new_prefix = <<>>
            /\ new_prefix = AgePrefix(2 * cur)
            /\ new_prefix = AgePrefix(2 * cur + 1)
            /\ Len(new_prefix) <= 7

C29_Witness ==
    /\ last.kind = "Regenerated"
    /\ last.expected_age = MaxExpectedAge
    /\ last.new_prefix = <<1, 1, 1, 1, 1, 1, 1>>
    /\ node.age = MaxExpectedAge

(***************************************************************************)
(* NetworkKnowledge after construction (mod.rs:138-490): the collaborators *)
(* of its operations.                                                      *)
(***************************************************************************)
\* The branch of keys that ends at k, each key signed by the one before it.
Branch(k) == IF k = ForeignKey THEN <<k>> ELSE PathTo(k)

\* get_proof_chain that answers with the chain of the key `to` alone.
get_proof_chain_of_last(dag, from, to) ==
    IF has_key(dag, from) /\ has_key(dag, to) THEN <<<<to>>>> ELSE <<>>

\* The all-sections-chains DAG is the sequence of its keys in the order they
\* were added; the parent of a key is the key that signed it.
\* SecuredLinkedList::get_proof_chain(from, to): <<>> (KeyNotFound) or
\* <<the branch from `from` to `to`>>.
get_proof_chain(dag, from, to) ==
    LET branch == Branch(to)
    IN  IF /\ has_key(dag, from)
           /\ has_key(dag, to)
           /\ has_key(branch, from)
           /\ \A i \in key_index(branch, from)..Len(branch) : has_key(dag, branch[i])
        THEN <<SubSeq(branch, key_index(branch, from), Len(branch))>>
        ELSE <<>>

\* SecuredLinkedList::join(other): <<>> when other's root is not a key of
\* the DAG, else <<the DAG with other's keys added>>.
RECURSIVE AddKeys(_, _)
AddKeys(dag, chain) ==
    IF chain = <<>> THEN dag
    ELSE AddKeys(IF has_key(dag, Head(chain)) THEN dag ELSE Append(dag, Head(chain)),
                 Tail(chain))

dag_join(dag, other) ==
    IF has_key(dag, root_key(other)) THEN <<AddKeys(dag, other)>> ELSE <<>>

\* NetworkPrefixMap::verify_with_chain_and_update(signed_sap, proof_chain,
\* section_chain): update, with the proof chain trusted from a key of the
\* section chain.
verify_with_chain_and_update(pm, ssap, proof_chain, section_chain) ==
    LET sap == ssap.value
        stored == pm.sections[sap.prefix]
    IN  IF \/ ~sap_self_verify(ssap)
           \/ ssap.sig.public_key # sap.key
           \/ ~chain_self_verify(proof_chain)
           \/ last_key(proof_chain) # sap.key
           \/ ~has_key(section_chain, root_key(proof_chain))
        THEN <<"err", pm>>
        ELSE IF stored # <<>> /\ stored[1].value.key = sap.key
        THEN <<"same", pm>>
        ELSE IF stored # <<>> /\ ~has_key(proof_chain, stored[1].value.key)
        THEN <<"err", pm>>
        ELSE IF \E q \in StoredPrefixes(pm) : IsExtensionOf(q, sap.prefix)
        THEN <<"same", pm>>
        ELSE <<"new", InsertSap(pm, ssap)>>

\* SectionPeers: the authed node states held, at most one per name; the
\* Joined ones are the members, the others the archive.
members(section_peers) == {a \in section_peers : a.value.state = "Joined"}

\* SectionPeers::update(authed_state): <<whether it stored the state, the
\* peers after it>>.
section_peers_update(section_peers, auth) ==
    LET held_now == {a \in section_peers : a.value.name = auth.value.name}
    IN  IF \E a \in held_now : a.value.state # "Joined"
        THEN <<FALSE, section_peers>>
        ELSE IF auth.value.state = "Joined"
        THEN IF held_now # {} THEN <<FALSE, section_peers>>
             ELSE <<TRUE, section_peers \cup {auth}>>
        ELSE IF held_now = {} THEN <<FALSE, section_peers>>
        ELSE <<TRUE, (section_peers \ held_now) \cup {auth}>>

\* retain that keeps every peer.
retain_all(section_peers, p) == section_peers

\* SectionPeers::retain(prefix)
retain(section_peers, p) ==
    {a \in section_peers : a.value.state # "Joined" \/ matches(p, a.value.name)}

\* SectionPeers::prune_members_archive(section_chain)
prune_members_archive(section_peers, section_chain) ==
    {a \in section_peers : a.value.state = "Joined" \/ has_key(section_chain, a.sig.public_key)}

\* This node: its name and its address.  A SAP lists its elders by address.
Us == [name |-> [bits |-> <<0, 0>>, age |-> MIN_ADULT_AGE], addr |-> 1]

\* SectionAuthorityProvider::contains_elder(name)
contains_elder(sap, peer) == peer.addr \in sap.elders

(***************************************************************************)
(* The operations of NetworkKnowledge.  An operation runs from one         *)
(* suspension point (an await) to the next; each part is given as the      *)
(* NetworkKnowledge it leaves and what it returns, or as the locals it     *)
(* keeps while suspended.                                                  *)
(***************************************************************************)
\* merge_members, mod.rs:442-457: the loop over the peers.
RECURSIVE MergeEach(_, _, _)
MergeEach(section_peers, chain, peers) ==
    IF peers = {} THEN <<FALSE, section_peers>>
    ELSE LET node_state == CHOOSE a \in peers : TRUE
             rest == MergeEach(section_peers, chain, peers \ {node_state})
             updated == section_peers_update(rest[2], node_state)
         IN  IF ~node_state_verify(node_state, chain) THEN rest
             ELSE <<rest[1] \/ updated[1], updated[2]>>

\* mod.rs:435-462
merge_members(nk, peers) ==
    LET merged == MergeEach(nk.section_peers, nk.chain, peers)
    IN  [ret |-> merged[1],
         knowledge |-> [nk EXCEPT !.section_peers =
                                    retain(merged[2], nk.signed_sap.value.prefix)]]

\* mod.rs:465-490
update_member(nk, node_state) ==
    IF ~node_state_verify(node_state, nk.chain)
    THEN [ret |-> FALSE, knowledge |-> nk]
    ELSE LET updated == section_peers_update(nk.section_peers, node_state)
         IN  [ret |-> updated[1], knowledge |-> [nk EXCEPT !.section_peers = updated[2]]]

\* mod.rs:159-195, for the key set whose public key is genesis_key.
first_node(peer, genesis_key) ==
    LET sap == [prefix |-> <<>>, key |-> genesis_key, elders |-> {peer.addr}]
        nk == NetworkKnowledge_new(genesis_key, <<genesis_key>>,
                                   [value |-> sap, sig |-> GoodSapSig(sap)], <<>>)
        node_state == [name |-> peer.name, state |-> "Joined"]
        sig == [public_key |-> genesis_key, signs |-> SerialiseNodeState(node_state)]
    IN  [nk EXCEPT !.section_peers =
                      section_peers_update(@, [value |-> node_state, sig |-> sig])[2]]

\* The members and the answer, the answer being true also when only the
\* members changed.
MergeUpdatedMembers_any_change(nk, updated_members, there_was_an_update) ==
    LET merged == IF updated_members = <<>> THEN [ret |-> FALSE, knowledge |-> nk]
                  ELSE merge_members(nk, updated_members[1])
    IN  [ret |-> IF there_was_an_update \/ merged.ret THEN "Ok(true)" ELSE "Ok(false)",
         knowledge |-> merged.knowledge]

\* update_knowledge_if_valid, mod.rs:376-392: the members and the answer.
MergeUpdatedMembers(nk, updated_members, there_was_an_update) ==
    [ret |-> IF there_was_an_update THEN "Ok(true)" ELSE "Ok(false)",
     knowledge |-> IF updated_members = <<>> THEN nk
                   ELSE merge_members(nk, updated_members[1]).knowledge]

\* update_knowledge_if_valid, mod.rs:294-318: switch_to_new_sap.
switch_to_new_sap(current_sap, provided_sap, our, has_key_share) ==
    LET not_elder == ~contains_elder(current_sap, our)
        we_are_an_adult == IF not_elder THEN contains_elder(provided_sap, our) ELSE not_elder
        we_have_a_share_of_this_key == IF ~we_are_an_adult THEN has_key_share ELSE FALSE
    IN  we_are_an_adult \/ we_have_a_share_of_this_key

\* update_knowledge_if_valid, mod.rs:270-358 and, when the node does not
\* switch, to the end: up to the await of self.chain.write() with the new SAP
\* already written, or to the return.
update_knowledge_if_valid(nk, signed_sap, proof_chain, updated_members, our, has_key_share) ==
    LET provided_sap == signed_sap.value
        updated == verify_with_chain_and_update(nk.prefix_map, signed_sap, proof_chain, nk.chain)
        recorded == [nk EXCEPT !.prefix_map = updated[2]]
        joined == dag_join(nk.all_sections_chains, proof_chain)
        merged == [recorded EXCEPT !.all_sections_chains = joined[1]]
        retained == [merged EXCEPT !.section_peers = retain(@, provided_sap.prefix)]
        section_chain == get_proof_chain(merged.all_sections_chains, nk.genesis_key,
                                         provided_sap.key)
    IN  IF updated[1] # "new"
        THEN MergeUpdatedMembers(nk, updated_members, FALSE)
        ELSE IF joined = <<>>
        THEN [ret |-> "Err", knowledge |-> recorded]
        ELSE IF ~(/\ switch_to_new_sap(nk.signed_sap.value, provided_sap, our, has_key_share)
                  /\ matches(provided_sap.prefix, our.name))
        THEN MergeUpdatedMembers(merged, updated_members, TRUE)
        ELSE IF section_chain = <<>>
        THEN [ret |-> "Err", knowledge |-> retained]
        ELSE [ret |-> "suspended",
              knowledge |-> [retained EXCEPT
                                !.section_peers = prune_members_archive(@, section_chain[1]),
                                !.signed_sap = signed_sap],
              locals |-> [section_chain |-> section_chain[1],
                          updated_members |-> updated_members]]

\* update_knowledge_if_valid, mod.rs:359-392.
update_knowledge_switch_chain(nk, locals) ==
    MergeUpdatedMembers([nk EXCEPT !.chain = locals.section_chain], locals.updated_members, TRUE)

\* try_update_current_sap, mod.rs:200-226 and the arms that answer false: up
\* to the await of self.chain.write() with the stored SAP already written, or
\* to the return.
try_update_current_sap(nk, key, p) ==
    LET stored == get_signed(nk.prefix_map, p)
        section_chain == get_proof_chain(nk.all_sections_chains, nk.genesis_key, key)
    IN  IF stored = <<>> \/ stored[1].value.key # key \/ section_chain = <<>>
        THEN [ret |-> "false", knowledge |-> nk]
        ELSE [ret |-> "suspended",
              knowledge |-> [nk EXCEPT
                                !.section_peers =
                                    prune_members_archive(retain(@, p), section_chain[1]),
                                !.signed_sap = stored[1]],
              locals |-> [section_chain |-> section_chain[1]]]

(***************************************************************************)
(* One NetworkKnowledge and the calls made on it.  A call that awaits a    *)
(* lock between two writes is several steps; k_op.held names the guards it *)
(* holds while it is suspended.                                            *)
(***************************************************************************)
\* Number of calls made on a NetworkKnowledge once it is constructed.
MaxKnowledgeCalls == 2

Idle == [pc |-> "idle", held |-> {}, locals |-> <<>>]

\* The SAPs of the calls: for each prefix and key, with this node as the only
\* elder or with the other addresses as elders.
KnowledgeSaps == [prefix : Prefixes, key : Keys, elders : {{Us.addr}, Addrs \ {Us.addr}}]

SignedSap(sap) == [value |-> sap, sig |-> GoodSapSig(sap)]

\* The signed SAPs sent to update_knowledge_if_valid: properly signed ones,
\* and one whose signature does not verify.
UpdateSaps ==
    {SignedSap(sap) : sap \in {s \in KnowledgeSaps : s.key # ForeignKey}}
        \cup {[value |-> SapOf(<<>>, GenesisKey), sig |-> [public_key |-> GenesisKey, signs |-> Junk]]}

\* The authed node states of the calls: this node and one of the other half
\* of the address space, Joined or Left, signed by a key; and one whose
\* signature does not verify.
AuthedState(name, state, k) ==
    [value |-> [name |-> name, state |-> state],
     sig |-> [public_key |-> k, signs |-> SerialiseNodeState([name |-> name, state |-> state])]]

AuthedStates ==
    {AuthedState(n, s, k) : n \in {Us.name, OtherName(Us.name)}, s \in {"Joined", "Left"},
                            k \in Keys \ {ForeignKey}}
        \cup {[value |-> [name |-> Us.name, state |-> "Joined"],
               sig |-> [public_key |-> GenesisKey, signs |-> Junk]]}

\* The sets of peers of merge_members: a Joined state of this node and one
\* of the other node.
PeerSets == {{a, b} : a \in {x \in AuthedStates : x.value = [name |-> Us.name, state |-> "Joined"]},
                      b \in {x \in AuthedStates : x.value = [name |-> OtherName(Us.name),
                                                              state |-> "Joined"]}}

\* updated_members of update_knowledge_if_valid: None, or Some of one state.
UpdatedMembers == {<<>>, <<{AuthedState(OtherName(Us.name), "Joined", GenesisKey)}>>}

\* The NetworkKnowledge a relocated node built for its new section: join
\* (join.rs:202-208) makes it with `new` from the genesis key, chain and SAP
\* of the approval and the prefix map of the node.
RelocationKnowledges(prefix_map_of_node) ==
    {nk \in {NetworkKnowledge_new(g, Branch(sap.key), SignedSap(sap), <<prefix_map_of_node>>) :
                g \in Keys, sap \in {s \in KnowledgeSaps : s.elders # {Us.addr}}} :
        nk.kind = "ok"}

\* Before construction.
ConstructInit ==
    /\ JoinUnused
    /\ MembershipUnused
    /\ SenderUnused
    /\ knowledge = [kind |-> "none"]
    /\ k_op = Idle
    /\ k_last = [op |-> "none"]
    /\ k_steps = 0

Constructed == knowledge.kind = "ok" /\ k_op.pc = "idle" /\ k_steps < MaxKnowledgeCalls

Returns(op, ret) == k_last' = [op |-> op, ret |-> ret] /\ k_op' = Idle

\* mod.rs:60-135
New(genesis_key, chain, signed_sap, passed_prefix_map) ==
    /\ knowledge.kind = "none"
    /\ k_last.op = "none"
    /\ \E made \in {NetworkKnowledge_new(genesis_key, chain, signed_sap, passed_prefix_map)} :
        /\ knowledge' = IF made.kind = "ok" THEN made ELSE knowledge
        /\ k_last' = [op |-> "new", ret |-> IF made.kind = "ok" THEN "Ok" ELSE made.error,
                      args |-> [genesis_key |-> genesis_key, chain |-> chain,
                                signed_sap |-> signed_sap,
                                passed_prefix_map |-> passed_prefix_map]]
    /\ k_op' = Idle
    /\ UNCHANGED <<k_steps, jvars, mvars, svars>>

\* mod.rs:159-195
FirstNode(genesis_key) ==
    /\ knowledge.kind = "none"
    /\ k_last.op = "none"
    /\ knowledge' = first_node(Us, genesis_key)
    /\ Returns("first_node", "Ok")
    /\ UNCHANGED <<k_steps, jvars, mvars, svars>>

ConstructNext ==
    \/ \E genesis_key \in Keys, sap \in KnowledgeSaps, passed \in {<<>>} \cup
            {<<NewPrefixMap(g)>> : g \in Keys \ {ForeignKey}} :
        \E sig \in SapSigs(sap), chain \in ChainsFor(sap.key) :
            New(genesis_key, chain, [value |-> sap, sig |-> sig], passed)
    \/ \E genesis_key \in Keys : FirstNode(genesis_key)

SpecConstruct == ConstructInit /\ [][ConstructNext]_vars

\* The NetworkKnowledge of a node: made by `new` or by first_node.
ConstructedKnowledges ==
    {nk \in {NetworkKnowledge_new(genesis_key, chain, SignedSap(sap), <<>>) :
                genesis_key \in Keys, chain \in {Branch(k) : k \in Keys},
                sap \in KnowledgeSaps} : nk.kind = "ok"}
        \cup {first_node(Us, genesis_key) : genesis_key \in Keys}

KnowledgeInit ==
    /\ JoinUnused
    /\ MembershipUnused
    /\ SenderUnused
    /\ knowledge \in ConstructedKnowledges
    /\ k_op = Idle
    /\ k_last = [op |-> "none"]
    /\ k_steps = 0

\* mod.rs:465-490
UpdateMember(node_state) ==
    /\ Constructed
    /\ \E done \in {update_member(knowledge, node_state)} :
        /\ knowledge' = done.knowledge
        /\ Returns("update_member", done.ret)
    /\ k_steps' = k_steps + 1
    /\ UNCHANGED <<jvars, mvars, svars>>

\* mod.rs:435-462
MergeMembers(peers) ==
    /\ Constructed
    /\ \E done \in {merge_members(knowledge, peers)} :
        /\ knowledge' = done.knowledge
        /\ Returns("merge_members", done.ret)
    /\ k_steps' = k_steps + 1
    /\ UNCHANGED <<jvars, mvars, svars>>

\* mod.rs:262-358
UpdateKnowledgeIfValid(signed_sap, proof_chain, updated_members, has_key_share) ==
    /\ Constructed
    /\ \E done \in {update_knowledge_if_valid(knowledge, signed_sap, proof_chain,
                                              updated_members, Us, has_key_share)} :
        /\ knowledge' = done.knowledge
        /\ IF done.ret = "suspended"
           THEN /\ k_op' = [pc |-> "update_chain_write", held |-> {}, locals |-> done.locals]
                /\ k_last' = k_last
           ELSE Returns("update_knowledge_if_valid", done.ret)
    /\ k_steps' = k_steps + 1
    /\ UNCHANGED <<jvars, mvars, svars>>

\* mod.rs:359-392
UpdateKnowledgeSwitchChain ==
    /\ k_op.pc = "update_chain_write"
    /\ \E done \in {update_knowledge_switch_chain(knowledge, k_op.locals)} :
        /\ knowledge' = done.knowledge
        /\ Returns("update_knowledge_if_valid", done.ret)
    /\ UNCHANGED <<k_steps, jvars, mvars, svars>>

\* mod.rs:200-226 and 236-255: the read guard on all_sections_chains is a
\* temporary of the match's scrutinee (line 210-214) and lives to the end of
\* the match.
TryUpdateCurrentSap(key, p) ==
    /\ Constructed
    /\ \E done \in {try_update_current_sap(knowledge, key, p)} :
        /\ knowledge' = done.knowledge
        /\ IF done.ret = "suspended"
           THEN /\ k_op' = [pc |-> "try_chain_write", held |-> {"all_sections_chains.read"},
                            locals |-> done.locals]
                /\ k_last' = k_last
           ELSE Returns("try_update_current_sap", done.ret)
    /\ k_steps' = k_steps + 1
    /\ UNCHANGED <<jvars, mvars, svars>>

\* mod.rs:227-235
TryUpdateSwitchChain ==
    /\ k_op.pc = "try_chain_write"
    /\ knowledge' = [knowledge EXCEPT !.chain = k_op.locals.section_chain]
    /\ Returns("try_update_current_sap", "true")
    /\ UNCHANGED <<k_steps, jvars, mvars, svars>>

\* mod.rs:138-142: the write guard on chain is taken, then
\* new_network_nowledge.section_chain() is awaited.
RelocatedTo ==
    /\ Constructed
    /\ \E new_network_nowledge \in RelocationKnowledges(knowledge.prefix_map) :
        k_op' = [pc |-> "relocated_read_chain", held |-> {"chain.write"},
                 locals |-> new_network_nowledge]
    /\ k_steps' = k_steps + 1
    /\ UNCHANGED <<knowledge, k_last, jvars, mvars, svars>>

\* mod.rs:142-146: the chain is written and its guard dropped; the write lock
\* on signed_sap is awaited.
RelocatedWriteChain ==
    /\ k_op.pc = "relocated_read_chain"
    /\ knowledge' = [knowledge EXCEPT !.chain = k_op.locals.chain]
    /\ k_op' = [k_op EXCEPT !.pc = "relocated_lock_sap", !.held = {}]
    /\ UNCHANGED <<k_last, k_steps, jvars, mvars, svars>>

\* mod.rs:146-147: the write guard on signed_sap is taken, then
\* new_network_nowledge.signed_sap.read() is awaited.
RelocatedLockSap ==
    /\ k_op.pc = "relocated_lock_sap"
    /\ k_op' = [k_op EXCEPT !.pc = "relocated_read_sap", !.held = {"signed_sap.write"}]
    /\ UNCHANGED <<knowledge, k_last, k_steps, jvars, mvars, svars>>

\* mod.rs:147-155
RelocatedWriteSap ==
    /\ k_op.pc = "relocated_read_sap"
    /\ knowledge' = merge_members([knowledge EXCEPT !.signed_sap = k_op.locals.signed_sap],
                                  members(k_op.locals.section_peers)).knowledge
    /\ Returns("relocated_to", "Ok")
    /\ UNCHANGED <<k_steps, jvars, mvars, svars>>

KnowledgeNext ==
    \/ \E node_state \in AuthedStates : UpdateMember(node_state)
    \/ \E peers \in PeerSets : MergeMembers(peers)
    \/ \E signed_sap \in UpdateSaps, updated_members \in UpdatedMembers, share \in BOOLEAN :
        \E proof_chain \in {Branch(signed_sap.value.key), <<signed_sap.value.key>>} :
            UpdateKnowledgeIfValid(signed_sap, proof_chain, updated_members, share)
    \/ UpdateKnowledgeSwitchChain
    \/ \E key \in Keys, p \in Prefixes : TryUpdateCurrentSap(key, p)
    \/ TryUpdateSwitchChain
    \/ RelocatedTo
    \/ RelocatedWriteChain
    \/ RelocatedLockSap
    \/ RelocatedWriteSap

SpecKnowledge == KnowledgeInit /\ [][KnowledgeNext]_vars

(***************************************************************************)
(* NetworkKnowledge::new: its errors and what it constructs.               *)
(***************************************************************************)
\* The conditions under which `new` refuses, by the error it gives for each.
NewRefusals(a) ==
    [UntrustedProofChain |->
        \/ a.genesis_key # root_key(a.chain)
        \/ ~chain_self_verify(a.chain),
     UntrustedSectionAuthProvider |->
        \/ a.signed_sap.sig.public_key # last_key(a.chain)
        \/ ~sap_self_verify(a.signed_sap)
        \/ a.signed_sap.sig.public_key # a.signed_sap.value.key,
     InvalidGenesisKey |->
        /\ a.passed_prefix_map # <<>>
        /\ a.passed_prefix_map[1].genesis_key # a.genesis_key]

\* C21: NetworkKnowledge::new returns an error and constructs nothing when
\* the genesis key differs from the chain's root key or the chain does not
\* self-verify (UntrustedProofChain), when the SAP's signing key differs from
\* the chain's last key, the SAP's signature does not verify or the signing
\* key differs from the SAP's section key (UntrustedSectionAuthProvider), or
\* when a passed prefix map has another genesis key (InvalidGenesisKey), the
\* error being one of those named for a condition that holds; otherwise it
\* succeeds with the given SAP as current SAP and the given chain as both the
\* section chain and the DAG.
C21_NewErrorsOrConstructs ==
    k_last.op = "new" =>
        LET refusals == NewRefusals(k_last.args)
        IN  IF \E e \in DOMAIN refusals : refusals[e]
            THEN /\ k_last.ret \in DOMAIN refusals
                 /\ refusals[k_last.ret]
                 /\ knowledge.kind = "none"
            ELSE /\ k_last.ret = "Ok"
                 /\ knowledge.kind = "ok"
                 /\ knowledge.signed_sap = k_last.args.signed_sap
                 /\ knowledge.chain = k_last.args.chain
                 /\ knowledge.all_sections_chains = k_last.args.chain

\* `new` refused a chain that starts at the genesis key and does not
\* self-verify, the SAP being properly signed by the chain's last key.
C21_Witness ==
    /\ k_last.op = "new"
    /\ k_last.ret = "UntrustedProofChain"
    /\ k_last.args.genesis_key = root_key(k_last.args.chain)
    /\ ~NewRefusals(k_last.args).UntrustedSectionAuthProvider

WriteGuards == {"chain.write", "signed_sap.write"}

\* C23: at every instant a concurrent reader can observe, including between
\* the separate lock acquisitions inside update_knowledge_if_valid,
\* try_update_current_sap and relocated_to, the section key of the current
\* signed SAP equals the last key of the current section chain.
C23_SapKeyIsLastKey ==
    (knowledge.kind = "ok" /\ k_op.held \cap WriteGuards = {}) =>
        knowledge.signed_sap.value.key = last_key(knowledge.chain)

\* C26: no NetworkKnowledge operation keeps a lock guard on the section
\* chain, the current signed SAP or the all-sections-chains DAG while it
\* awaits another lock or any other suspension point.
C26_NoGuardAcrossAwait ==
    k_op.pc # "idle" => k_op.held = {}

\* C28: after any sequence of first_node, update_member, merge_members,
\* update_knowledge_if_valid, try_update_current_sap and relocated_to, every
\* authed node state held in the section peers verifies under a key present
\* in the current section chain; update_member and merge_members never store
\* a state that fails verification against the current chain, and after
\* merge_members no peer outside the current prefix remains.
C28_PeersVerifyInChain ==
    (knowledge.kind = "ok" /\ k_op.pc = "idle") =>
        /\ \A a \in knowledge.section_peers : node_state_verify(a, knowledge.chain)
        /\ k_last.op = "merge_members" =>
            \A a \in members(knowledge.section_peers) :
                matches(knowledge.signed_sap.value.prefix, a.value.name)

(***************************************************************************)
(* update_knowledge_if_valid, for every call that can be made in a         *)
(* reachable state.                                                        *)
(***************************************************************************)
\* The proof chains sent with a signed SAP.
ProofChainsOf(signed_sap) == {Branch(signed_sap.value.key), <<signed_sap.value.key>>}

\* What a whole call leaves and answers, its wait for the chain's write lock
\* included.
UpdateKnowledgeOutcome(nk, signed_sap, proof_chain, updated_members, has_key_share) ==
    LET first == update_knowledge_if_valid(nk, signed_sap, proof_chain, updated_members,
                                           Us, has_key_share)
    IN  IF first.ret = "suspended"
        THEN update_knowledge_switch_chain(first.knowledge, first.locals)
        ELSE [ret |-> first.ret, knowledge |-> first.knowledge]

\* The call stored the provided SAP as a new one in the prefix map.
StoredAsNew(nk, after, signed_sap) ==
    /\ get_signed(nk.prefix_map, signed_sap.value.prefix) # <<signed_sap>>
    /\ get_signed(after.prefix_map, signed_sap.value.prefix) = <<signed_sap>>

\* The call left every key of the proof chain in the DAG.
MergedIntoDag(after, proof_chain) ==
    \A i \in 1..Len(proof_chain) : has_key(after.all_sections_chains, proof_chain[i])

\* The call made the provided SAP the current one and the proof chain from
\* genesis to its key the section chain.
Switched(after, signed_sap) ==
    /\ after.signed_sap = signed_sap
    /\ after.chain = PathTo(signed_sap.value.key)

\* C24: when update_knowledge_if_valid records a novel SAP, the node switches
\* its current SAP and section chain exactly when the new SAP's prefix
\* matches the node's name and either the node is an adult under the new SAP
\* (not in its elder set) or it holds a key share for the new section key; in
\* particular an adult that stays an adult switches to the new SAP of its own
\* section.
C24_SwitchesWhenAdultOrKeyShare ==
    Constructed =>
        \A signed_sap \in UpdateSaps, has_key_share \in BOOLEAN :
            \A proof_chain \in ProofChainsOf(signed_sap) :
                LET outcome == UpdateKnowledgeOutcome(knowledge, signed_sap, proof_chain, <<>>,
                                                  has_key_share)
                IN  (outcome.ret = "Ok(true)" /\ knowledge.signed_sap # signed_sap) =>
                        (Switched(outcome.knowledge, signed_sap) <=>
                            /\ matches(signed_sap.value.prefix, Us.name)
                            /\ \/ ~contains_elder(signed_sap.value, Us)
                               \/ has_key_share)

\* C25: update_knowledge_if_valid returns Ok(true) exactly when the call
\* stored the provided SAP as new in the prefix map and merged its proof
\* chain into the DAG; it returns Ok(false) when the prefix map did not take
\* the SAP, because it holds it already or rejects it, and then neither the
\* prefix map, the DAG, the current SAP nor the section chain has changed,
\* whatever happened to the section members.
C25_TrueIffSapRecorded ==
    Constructed =>
        \A signed_sap \in UpdateSaps, has_key_share \in BOOLEAN,
           updated_members \in UpdatedMembers :
            \A proof_chain \in ProofChainsOf(signed_sap) :
                LET outcome == UpdateKnowledgeOutcome(knowledge, signed_sap, proof_chain,
                                                  updated_members, has_key_share)
                    after == outcome.knowledge
                IN  /\ outcome.ret = "Ok(true)" <=>
                            /\ StoredAsNew(knowledge, after, signed_sap)
                            /\ MergedIntoDag(after, proof_chain)
                    /\ after.prefix_map = knowledge.prefix_map =>
                            /\ outcome.ret = "Ok(false)"
                            /\ after.all_sections_chains = knowledge.all_sections_chains
                            /\ after.signed_sap = knowledge.signed_sap
                            /\ after.chain = knowledge.chain

\* The first call on a NetworkKnowledge was update_knowledge_if_valid, it
\* answered Ok(false), and it stored a member that no constructor stores.
C25_Witness ==
    /\ k_last = [op |-> "update_knowledge_if_valid", ret |-> "Ok(false)"]
    /\ k_steps = 1
    /\ \E a \in knowledge.section_peers : a.value.name = OtherName(Us.name)

(***************************************************************************)
(* The switch of the current SAP, and the calls that fail.                 *)
(***************************************************************************)
\* The step in which update_knowledge_if_valid or try_update_current_sap,
\* having written the new SAP, writes the section chain and returns.
SwitchCompletes ==
    /\ k_op.pc \in {"update_chain_write", "try_chain_write"}
    /\ k_op'.pc = "idle"

\* C31: whenever update_knowledge_if_valid or try_update_current_sap switches
\* the current SAP, afterwards the section peers contain only members whose
\* name matches the new prefix, archived members signed by keys absent from
\* the new chain are pruned, and the current section chain is exactly the
\* proof chain from the genesis key to the new section key taken from the
\* DAG.
C31_SwitchRetainsPrunesAndDerivesChain ==
    [][SwitchCompletes =>
        /\ \A a \in members(knowledge'.section_peers) :
                matches(knowledge'.signed_sap.value.prefix, a.value.name)
        /\ \A a \in knowledge'.section_peers \ members(knowledge'.section_peers) :
                has_key(knowledge'.chain, a.sig.public_key)
        /\ <<knowledge'.chain>> = get_proof_chain(knowledge'.all_sections_chains,
                                                  knowledge'.genesis_key,
                                                  knowledge'.signed_sap.value.key)]_vars

\* A switch to a SAP of a prefix longer than the empty one has completed and
\* the section still has peers.
C31_Witness ==
    /\ k_op.pc = "idle"
    /\ k_last.op \in {"update_knowledge_if_valid", "try_update_current_sap"}
    /\ k_last.ret \in {"Ok(true)", "true"}
    /\ knowledge.signed_sap.value.prefix # <<>>
    /\ last_key(knowledge.chain) = knowledge.signed_sap.value.key
    /\ Len(knowledge.chain) > 1
    /\ knowledge.section_peers # {}

\* C39: if update_knowledge_if_valid returns an error, no part of the network
\* knowledge has been modified: prefix map, DAG, section peers, current SAP
\* and section chain are all as before the call.
C39_ErrorChangesNothing ==
    Constructed =>
        \A signed_sap \in UpdateSaps, has_key_share \in BOOLEAN,
           updated_members \in UpdatedMembers :
            \A proof_chain \in ProofChainsOf(signed_sap) :
                LET outcome == UpdateKnowledgeOutcome(knowledge, signed_sap, proof_chain,
                                                      updated_members, has_key_share)
                IN  outcome.ret = "Err" => outcome.knowledge = knowledge

(***************************************************************************)
(* Membership: nodes that have left, and the failures that are excluded.   *)
(***************************************************************************)
\* The names whose latest decided state at a generation is Joined.
JoinedAt(member_states) == {n \in DOMAIN member_states : member_states[n] = "Joined"}

\* C38: a node whose latest decided state is Left or Relocated no longer
\* counts as a member for admission: it does not count toward the
\* SOFT_MAX_MEMBERS capacity check of a later Joined proposal, and a later
\* Joined proposal for the same name passes validation.
C38_LeftNoLongerCounts ==
    \A g \in 0..membership.gen :
        LET got == section_member_states(membership, g)
        IN  (got.kind = "ok" /\ Cardinality(JoinedAt(got.members)) < SOFT_MAX_MEMBERS) =>
                \A n \in MemberNames \ JoinedAt(got.members) :
                    validate_node_state(membership, MemberState(n, "Joined"), g + 1) = "Ok"

\* The failures that would be a defect of Membership itself: the failed
\* assertion or the panic, and the lookup of a generation that is missing.
InternalFailures == {"panic", "InvalidGeneration"}

\* C40: through any sequence of propose, handle_signed_vote and anti_entropy
\* calls, neither the assertion gen > 0 in validate_node_state nor the panic
\* in section_member_states on a history entry without a decision is ever
\* reached, and the membership lookup for generation vote.gen - 1 made during
\* validation never fails with InvalidGeneration: in every reachable state,
\* for a vote of any generation and any proposals, and for any proposal of
\* this node.
C40_NoPanicNoInvalidGeneration ==
    /\ \A g \in Generations, proposals \in ProposalSets :
            validate_proposals(membership, [gen |-> g, proposals |-> proposals])
                \cap InternalFailures = {}
    /\ \A node_state \in ProposedStates :
            propose(membership, node_state).results \cap InternalFailures = {}
    /\ \A g \in DOMAIN membership.history : membership.history[g].decision # <<>>
    /\ m_last.op \in {"propose", "handle_signed_vote"} => m_last.result \notin InternalFailures

\* Two generations have been decided, so that votes are validated against
\* the member states of a generation of the history.
C40_Witness ==
    /\ membership.gen = 2
    /\ m_last.op = "handle_signed_vote"
    /\ validate_proposals(membership, [gen |-> 2, proposals |-> {MemberState(MaxMember, "Joined")}])
            \subseteq {"Ok", "JoinRequestForExistingMember", "MembersAtCapacity"}


(***************************************************************************)
(* C32: receive_join_response hands to the join loop only the              *)
(* node-authenticated JoinResponse system messages, one per reception and  *)
(* in the order of reception; a service message, a BLS-share-authenticated *)
(* message, another system message or an undecodable payload is skipped:   *)
(* the join state, the loop position and the result stay as they were and  *)
(* nothing is sent.                                                        *)
(***************************************************************************)
JoinResponseKinds ==
    {"Rejected", "Approval", "ApprovalShare", "Retry", "Redirect", "ResourceChallenge"}

C32_OnlyJoinResponsesProcessed ==
    [][ /\ steps' # steps =>
            /\ steps' = steps + 1
            /\ last'.kind \in JoinResponseKinds \cup {"Discarded", "Closed"}
        /\ (steps' # steps /\ last'.kind = "Discarded") =>
            /\ last'.event \in DiscardedEvents
            /\ UNCHANGED <<pc, result, joinState>>
            /\ out' = <<>>
        /\ (steps' # steps /\ (joinState' # joinState \/ out' # <<>>)) =>
            last'.kind \in JoinResponseKinds ]_vars

C32_Witness ==
    /\ last.kind = "Discarded"
    /\ last.event = "Undecodable"
    /\ steps = MaxSteps
    /\ used_recipient_saps # {}
    /\ pc = "loop"


(***************************************************************************)
(* C33: the joiner never sends the same plain JoinRequest (no resource     *)
(* proof, no aggregated approval) with the same section key to the same    *)
(* peer address more than once, whether the send is the initial request or *)
(* answers a Redirect or a Retry.  Stated for the sends of two successive  *)
(* steps of the run: no (address, section key) pair of a plain request     *)
(* sent in one step is among those of the step before.                     *)
(***************************************************************************)
IsPlain(join_request) == join_request.resource_proof_response = <<>> /\ join_request.aggregated = <<>>

PlainSends(sent) ==
    UNION { {<<a, sent[i].join_request.section_key>> : a \in sent[i].recipients} :
              i \in {j \in DOMAIN sent : IsPlain(sent[j].join_request)} }

C33_NoPlainRequestRepeated ==
    [][(last.kind \in {"Run", "Redirect", "Retry"} /\ last'.kind \in {"Redirect", "Retry"})
          => PlainSends(out) \cap PlainSends(out') = {}]_vars


(***************************************************************************)
(* C34: a Retry whose SAP the prefix map already holds as current (the     *)
(* update returns Ok(false)) and that calls for no regeneration of the     *)
(* identity makes the joiner send no JoinRequest and change neither its    *)
(* target section key nor its identity; a Retry whose SAP the prefix map   *)
(* rejects with an error is ignored in the same way, and leaves the prefix *)
(* map as it was, whatever its expected_age.                               *)
(***************************************************************************)
RetryUpdate(resp) ==
    prefix_map_update(prefix_map, [value |-> resp.section_auth, sig |-> resp.section_signed],
                      resp.proof_chain)

RetryIgnored == out' = <<>> /\ UNCHANGED <<node, section_key>>

C34_KnownOrRejectedRetryIgnored ==
    [][(steps' # steps /\ last'.kind = "Retry") =>
          \E upd \in {RetryUpdate(last')} :
             /\ (/\ upd[1] = "same"
                 /\ ~ShouldRegenerate(node.age, last'.expected_age, aggregated)) => RetryIgnored
             /\ upd[1] = "err" => (RetryIgnored /\ UNCHANGED prefix_map)]_vars

\* A Retry with the SAP that an earlier Retry had made current was received
\* and nothing was sent; and a rejected Retry naming another age exists.
C34_Witness ==
    /\ steps = 2
    /\ last.kind = "Retry"
    /\ out = <<>>
    /\ matches(last.section_auth.prefix, node)
    /\ last.expected_age = node.age
    /\ RetryUpdate(last)[1] = "same"
    /\ section_key = last.section_auth.key
    /\ section_key # GenesisKey
    /\ \E r \in Retries : r.expected_age # node.age /\ RetryUpdate(r)[1] = "err"


(***************************************************************************)
(* C35: once an aggregation of approval shares has succeeded, the joiner's *)
(* keypair, name and age never change again, whatever Retry arrives, and   *)
(* the `aggregated` flag is never cleared.                                 *)
(***************************************************************************)
C35_IdentityFixedAfterAggregation ==
    [][aggregated => (aggregated' /\ node' = node)]_vars

\* After the aggregation, a Retry naming another age was accepted and
\* answered with a resend under the unchanged identity.
C35_Witness ==
    /\ aggregated
    /\ last.kind = "Retry"
    /\ matches(last.section_auth.prefix, node)
    /\ last.expected_age # node.age
    /\ node.age <= MIN_ADULT_AGE
    /\ out # <<>>
    /\ out[1].src_name = node


(***************************************************************************)
(* C36: in every JoinRequest sent with `aggregated` set, the combined      *)
(* signature is over the serialisation of exactly the node_state carried   *)
(* in that same request, also when successive ApprovalShares carried       *)
(* different node_state values.                                            *)
(***************************************************************************)
C36_AggregatedSignatureOverCarriedState ==
    \A i \in DOMAIN out :
        out[i].join_request.aggregated # <<>> =>
            sig_verify(out[i].join_request.aggregated[1].sig,
                       SerialiseNodeState(out[i].join_request.aggregated[1].value))


(***************************************************************************)
(* C37: whenever the joiner answers a Retry with a plain JoinRequest to    *)
(* the elders of the Retry's SAP, the name it then has, a freshly          *)
(* regenerated one included, matches that SAP's prefix.                    *)
(***************************************************************************)
C37_RetryResendNameMatchesSap ==
    [][(steps' # steps /\ last'.kind = "Retry" /\ out' # <<>>) =>
          matches(last'.section_auth.prefix, node')]_vars

====
